---- MODULE Spec2Model ----
(***************************************************************************)
(* A model of the CQL evaluation engine of python-fhir-cql:                *)
(*   - the runtime values and the operator helpers of CQLEvaluatorVisitor  *)
(*     (src/src/fhir_cql/engine/cql/visitor.py), computed as Python        *)
(*     computes them, including the exceptions Python raises;              *)
(*   - the library compiler (visitLibrary/_process_library_element);       *)
(*   - the expression visitor as a stack machine: one step per visit,      *)
(*     return or exception-unwinding step of the depth-first tree walk.    *)
(***************************************************************************)
EXTENDS Integers, Sequences, FiniteSets, TLC

(***************************************************************************)
(* Runtime values.  Every value is a record of one shape:                  *)
(*   t      the Python/CQL runtime type                                    *)
(*   n, e   a number n * 10^-e (Boolean and Integer have e = 0; a Decimal  *)
(*          keeps its scale e as Python's decimal.Decimal does; a Quantity *)
(*          holds its Decimal value here)                                  *)
(*   s      a string, as the sequence of its character codes (the unit of  *)
(*          a Quantity)                                                    *)
(*   key    the alias of a row entry                                       *)
(*   items  the elements of a list, the entries of a query row (a dict of  *)
(*          alias -> value), the value of a row entry                      *)
(***************************************************************************)
Null == [t |-> "Null", n |-> 0, e |-> 0, s |-> <<>>, key |-> "", items |-> <<>>]

BoolV(b) == [t |-> "Boolean", n |-> IF b THEN 1 ELSE 0, e |-> 0, s |-> <<>>, key |-> "", items |-> <<>>]

True == BoolV(TRUE)

False == BoolV(FALSE)

IntV(i) == [t |-> "Integer", n |-> i, e |-> 0, s |-> <<>>, key |-> "", items |-> <<>>]

DecV(n, e) == [t |-> "Decimal", n |-> n, e |-> e, s |-> <<>>, key |-> "", items |-> <<>>]

StrV(s) == [t |-> "String", n |-> 0, e |-> 0, s |-> s, key |-> "", items |-> <<>>]

QtyV(n, e, unit) == [t |-> "Quantity", n |-> n, e |-> e, s |-> unit, key |-> "", items |-> <<>>]

ListV(items) == [t |-> "List", n |-> 0, e |-> 0, s |-> <<>>, key |-> "", items |-> items]

\* One alias -> value entry of a query row, and the row (a Python dict).
Entry(alias, v) == [t |-> "Entry", n |-> 0, e |-> 0, s |-> <<>>, key |-> alias, items |-> <<v>>]

DictV(entries) == [t |-> "Dict", n |-> 0, e |-> 0, s |-> <<>>, key |-> "", items |-> entries]

\* A CQLCode with its code text, and a CQLConcept with its codes.
CodeV(code) == [t |-> "Code", n |-> 0, e |-> 0, s |-> code, key |-> "", items |-> <<>>]

ConceptV(codes) == [t |-> "Concept", n |-> 0, e |-> 0, s |-> <<>>, key |-> "", items |-> codes]

Range(seq) == {seq[i] : i \in 1..Len(seq)}

IsNull(v) == v.t = "Null"

\* isinstance(v, (int, Decimal)): bool is a subclass of int in Python.
IsNumber(v) == v.t \in {"Boolean", "Integer", "Decimal"}

\* isinstance(v, int)
IsInt(v) == v.t \in {"Boolean", "Integer"}

(***************************************************************************)
(* The outcome of a helper: a value, or the exception it raises.           *)
(***************************************************************************)
Ok(v) == [err |-> "", val |-> v]

Raise(kind) == [err |-> kind, val |-> Null]

\* Character codes of the unit strings and string literals used as inputs.
Mg == <<109, 103>>

Gram == <<103>>

ChA == <<97>>

ChB == <<98>>
(***************************************************************************)
(* Python number arithmetic on (n, e) pairs.                               *)
(***************************************************************************)
Abs(x) == IF x < 0 THEN -x ELSE x

RECURSIVE Pow10(_)
Pow10(k) == IF k <= 0 THEN 1 ELSE 10 * Pow10(k - 1)

Max2(a, b) == IF a >= b THEN a ELSE b

\* The coefficient of a number at scale k >= v.e.
Scaled(v, k) == v.n * Pow10(k - v.e)

\* int // int: the floor of the quotient (b # 0).
FloorDiv(a, b) ==
    LET q == Abs(a) \div Abs(b)
        exact == (Abs(a) % Abs(b)) = 0
    IN  IF (a >= 0) = (b > 0) THEN q
        ELSE IF exact THEN -q ELSE -q - 1

\* Decimal // Decimal: the quotient truncated towards zero (b # 0).
TruncDiv(a, b) ==
    LET q == Abs(a) \div Abs(b)
    IN  IF (a >= 0) = (b > 0) THEN q ELSE -q

\* Python's == on two numbers: by numeric value (True == 1, 1 == Decimal('1.0')).
NumEq(a, b) ==
    LET k == Max2(a.e, b.e) IN Scaled(a, k) = Scaled(b, k)

NumLt(a, b) ==
    LET k == Max2(a.e, b.e) IN Scaled(a, k) < Scaled(b, k)

\* The result type of int/Decimal arithmetic: int only when both are ints.
NumResult(a, b, n, e) ==
    IF IsInt(a) /\ IsInt(b) THEN IntV(n) ELSE DecV(n, e)

\* Lexicographic order of two strings (Python's str.__lt__).
RECURSIVE SeqLt(_, _)
SeqLt(a, b) ==
    IF b = <<>> THEN FALSE
    ELSE IF a = <<>> THEN TRUE
    ELSE IF Head(a) # Head(b) THEN Head(a) < Head(b)
    ELSE SeqLt(Tail(a), Tail(b))

\* s repeated k times (str * int; k <= 0 gives the empty string).
RECURSIVE Repeat(_, _)
Repeat(s, k) == IF k <= 0 THEN <<>> ELSE s \o Repeat(s, k - 1)

(***************************************************************************)
(* Python's str() and repr() of a value, as character codes.               *)
(***************************************************************************)
RECURSIVE Digits(_)
Digits(n) == IF n < 10 THEN <<48 + n>> ELSE Digits(n \div 10) \o <<48 + (n % 10)>>

\* The last k digits of n, zero-padded.
RECURSIVE FracDigits(_, _)
FracDigits(n, k) ==
    IF k <= 0 THEN <<>> ELSE FracDigits(n \div 10, k - 1) \o <<48 + (n % 10)>>

\* str(int) and str(Decimal) for a non-negative scale.
StrNum(n, e) ==
    LET sign == IF n < 0 THEN <<45>> ELSE <<>>
        whole == Digits(Abs(n) \div Pow10(e))
    IN  IF e = 0 THEN sign \o whole
        ELSE sign \o whole \o <<46>> \o FracDigits(Abs(n) % Pow10(e), e)

\* The character codes of the identifiers that occur as query aliases.
NameChars(name) ==
    CASE name = "N" -> <<78>>
      [] name = "M" -> <<77>>
      [] name = "L" -> <<76>>
      [] name = "A" -> <<65>>
      [] name = "B" -> <<66>>
      [] name = "C" -> <<67>>
      [] name = "x" -> <<120>>
      [] OTHER -> <<36, 116, 104, 105, 115>>

RECURSIVE ReprOf(_)
RECURSIVE ReprItems(_)
\* ', '.join(repr(x) for x in items)
ReprItems(items) ==
    IF items = <<>> THEN <<>>
    ELSE IF Len(items) = 1 THEN ReprOf(items[1])
    ELSE ReprOf(items[1]) \o <<44, 32>> \o ReprItems(Tail(items))

ReprOf(v) ==
    CASE v.t = "Null" -> <<78, 111, 110, 101>>
      [] v.t = "Boolean" -> IF v.n = 1 THEN <<84, 114, 117, 101>>
                            ELSE <<70, 97, 108, 115, 101>>
      [] v.t = "Integer" -> StrNum(v.n, 0)
      [] v.t = "Decimal" ->
            <<68, 101, 99, 105, 109, 97, 108, 40, 39>> \o StrNum(v.n, v.e) \o <<39, 41>>
      [] v.t = "String" -> <<39>> \o v.s \o <<39>>
      [] v.t = "Quantity" ->
            <<81, 117, 97, 110, 116, 105, 116, 121, 40, 118, 97, 108, 117, 101, 61>>
            \o <<68, 101, 99, 105, 109, 97, 108, 40, 39>> \o StrNum(v.n, v.e) \o <<39, 41>>
            \o <<44, 32, 117, 110, 105, 116, 61, 39>> \o v.s \o <<39, 41>>
      [] v.t = "Entry" -> <<39>> \o NameChars(v.key) \o <<39, 58, 32>> \o ReprOf(v.items[1])
      [] v.t = "Dict" -> <<123>> \o ReprItems(v.items) \o <<125>>
      [] OTHER -> <<91>> \o ReprItems(v.items) \o <<93>>

\* str(value): Quantity.__str__ is f"{value} '{unit}'".
StrOf(v) ==
    CASE v.t = "String" -> v.s
      [] v.t = "Decimal" -> StrNum(v.n, v.e)
      [] v.t = "Quantity" -> StrNum(v.n, v.e) \o <<32, 39>> \o v.s \o <<39>>
      [] OTHER -> ReprOf(v)

(***************************************************************************)
(* Python's binary operators on runtime values.                            *)
(***************************************************************************)
\* left == right (Quantity.__eq__ compares value and unit; list == list is
\* element-wise; values of unrelated types are unequal).
RECURSIVE PyEq(_, _)
PyEq(a, b) ==
    CASE IsNumber(a) /\ IsNumber(b) -> NumEq(a, b)
      [] a.t = "String" /\ b.t = "String" -> a.s = b.s
      [] a.t = "Quantity" /\ b.t = "Quantity" -> NumEq(a, b) /\ a.s = b.s
      [] a.t = "Null" /\ b.t = "Null" -> TRUE
      [] a.t = "Interval" /\ b.t = "Interval" ->
            /\ PyEq(a.items[1], b.items[1])
            /\ PyEq(a.items[2], b.items[2])
            /\ a.n = b.n
            /\ a.e = b.e
      [] a.t = "List" /\ b.t = "List" ->
            /\ Len(a.items) = Len(b.items)
            /\ \A i \in 1..Len(a.items) : PyEq(a.items[i], b.items[i])
      [] a.t = "Dict" /\ b.t = "Dict" ->
            /\ {x.key : x \in Range(a.items)} = {y.key : y \in Range(b.items)}
            /\ \A x \in Range(a.items) : \A y \in Range(b.items) :
                    x.key = y.key => PyEq(x.items[1], y.items[1])
      [] OTHER -> FALSE

\* left + right
PyAdd(a, b) ==
    CASE IsNumber(a) /\ IsNumber(b) ->
            LET k == Max2(a.e, b.e)
            IN  Ok(NumResult(a, b, Scaled(a, k) + Scaled(b, k), k))
      [] a.t = "String" /\ b.t = "String" -> Ok(StrV(a.s \o b.s))
      [] a.t = "List" /\ b.t = "List" -> Ok(ListV(a.items \o b.items))
      [] OTHER -> Raise("TypeError")

\* left - right
PySub(a, b) ==
    IF IsNumber(a) /\ IsNumber(b)
    THEN LET k == Max2(a.e, b.e)
         IN  Ok(NumResult(a, b, Scaled(a, k) - Scaled(b, k), k))
    ELSE Raise("TypeError")

\* left * right (a str or list times an int repeats it)
PyMul(a, b) ==
    CASE IsNumber(a) /\ IsNumber(b) -> Ok(NumResult(a, b, a.n * b.n, a.e + b.e))
      [] a.t = "String" /\ IsInt(b) -> Ok(StrV(Repeat(a.s, b.n)))
      [] IsInt(a) /\ b.t = "String" -> Ok(StrV(Repeat(b.s, a.n)))
      [] a.t = "List" /\ IsInt(b) -> Ok(ListV(Repeat(a.items, b.n)))
      [] IsInt(a) /\ b.t = "List" -> Ok(ListV(Repeat(b.items, a.n)))
      [] OTHER -> Raise("TypeError")

\* Digits kept after the point by an inexact Decimal division (Python's context
\* keeps 28 significant digits; the quotient is exact whenever it terminates
\* within DivDigits digits, and is cut there otherwise).
DivDigits == 2

\* Decimal(a) / Decimal(b), b # 0: the exact quotient at the smallest scale not
\* below the ideal one (a.e - b.e), as decimal.Decimal division gives.
DecDiv(a, b) ==
    LET lo == Max2(0, a.e - b.e)
        den == b.n * Pow10(a.e)
        num(k) == a.n * Pow10(b.e + k)
        ks == {k \in lo..(lo + DivDigits) : num(k) % Abs(den) = 0}
        k == IF ks # {} THEN CHOOSE x \in ks : \A y \in ks : x <= y
             ELSE lo + DivDigits
    IN  DecV(TruncDiv(num(k), den), k)

\* left / right where at least one operand is no int (int / int never reaches
\* Python's own division in _divide).
PyTrueDiv(a, b) ==
    IF IsNumber(a) /\ IsNumber(b) /\ b.n # 0 THEN Ok(DecDiv(a, b))
    ELSE Raise("TypeError")

\* int(left // right): int // int floors, Decimal // truncates towards zero.
PyFloorDivInt(a, b) ==
    CASE IsInt(a) /\ IsInt(b) /\ b.n # 0 -> Ok(IntV(FloorDiv(a.n, b.n)))
      [] IsNumber(a) /\ IsNumber(b) /\ ~(IsInt(a) /\ IsInt(b)) /\ b.n # 0 ->
            LET k == Max2(a.e, b.e)
            IN  Ok(IntV(TruncDiv(Scaled(a, k), Scaled(b, k))))
      [] OTHER -> Raise("TypeError")

\* left % right: int % int has the sign of the divisor, Decimal % the sign of
\* the dividend; str % x is printf-style formatting, which for a format string
\* without conversion specifiers returns it for a list argument and raises
\* TypeError ("not all arguments converted") for a scalar one.
PyMod(a, b) ==
    CASE IsInt(a) /\ IsInt(b) /\ b.n # 0 -> Ok(IntV(a.n - b.n * FloorDiv(a.n, b.n)))
      [] IsNumber(a) /\ IsNumber(b) /\ ~(IsInt(a) /\ IsInt(b)) /\ b.n # 0 ->
            LET k == Max2(a.e, b.e)
                x == Scaled(a, k)
                y == Scaled(b, k)
            IN  Ok(DecV(x - y * TruncDiv(x, y), k))
      [] a.t = "String" /\ b.t = "List" -> Ok(a)
      [] OTHER -> Raise("TypeError")

\* left OP right for OP in <, <=, >, >=: defined between numbers, between
\* strings and between lists (decided by the first pair of unequal elements);
\* TypeError otherwise (Quantity defines no ordering).
RECURSIVE PyCmp(_, _, _)
PyCmp(op, a, b) ==
    LET decide(lt, eq) ==
            CASE op = "<" -> lt
              [] op = "<=" -> lt \/ eq
              [] op = ">" -> ~lt /\ ~eq
              [] OTHER -> ~lt
    IN  CASE IsNumber(a) /\ IsNumber(b) -> Ok(BoolV(decide(NumLt(a, b), NumEq(a, b))))
          [] a.t = "String" /\ b.t = "String" -> Ok(BoolV(decide(SeqLt(a.s, b.s), a.s = b.s)))
          [] a.t = "List" /\ b.t = "List" ->
                LET m == IF Len(a.items) <= Len(b.items) THEN Len(a.items) ELSE Len(b.items)
                    diff == {i \in 1..m : ~PyEq(a.items[i], b.items[i])}
                IN  IF diff = {}
                    THEN Ok(BoolV(decide(Len(a.items) < Len(b.items),
                                         Len(a.items) = Len(b.items))))
                    ELSE LET i == CHOOSE x \in diff : \A y \in diff : x <= y
                         IN  PyCmp(op, a.items[i], b.items[i])
          [] OTHER -> Raise("TypeError")

(***************************************************************************)
(* The visitor's arithmetic helpers.                                       *)
(***************************************************************************)
IsZero(v) == PyEq(v, IntV(0))

\* A variant that adds the values of two quantities whatever their units
_add_any_unit(left, right) ==
    IF left.t = "Quantity" /\ right.t = "Quantity"
    THEN LET k == Max2(left.e, right.e)
         IN  Ok(QtyV(Scaled(left, k) + Scaled(right, k), k, left.s))
    ELSE PyAdd(left, right)

_add(left, right) ==
    IF left.t = "Quantity" /\ right.t = "Quantity"
    THEN IF left.s = right.s
         THEN LET k == Max2(left.e, right.e)
              IN  Ok(QtyV(Scaled(left, k) + Scaled(right, k), k, left.s))
         ELSE Ok(Null)
    ELSE PyAdd(left, right)

_subtract(left, right) ==
    IF left.t = "Quantity" /\ right.t = "Quantity"
    THEN IF left.s = right.s
         THEN LET k == Max2(left.e, right.e)
              IN  Ok(QtyV(Scaled(left, k) - Scaled(right, k), k, left.s))
         ELSE Ok(Null)
    ELSE PySub(left, right)

\* Decimal(str(right)) of a number: str(True) is no Decimal literal.
QuantityTimes(q, x, unit) ==
    IF x.t = "Boolean" THEN Raise("InvalidOperation")
    ELSE Ok(QtyV(q.n * x.n, q.e + x.e, unit))

_multiply(left, right) ==
    CASE left.t = "Quantity" /\ IsNumber(right) -> QuantityTimes(left, right, left.s)
      [] right.t = "Quantity" /\ IsNumber(left) -> QuantityTimes(right, left, right.s)
      [] OTHER -> PyMul(left, right)

_divide(left, right) ==
    IF IsZero(right) THEN Ok(Null)
    ELSE CASE left.t = "Quantity" /\ IsNumber(right) ->
                IF right.t = "Boolean" THEN Raise("InvalidOperation")
                ELSE LET q == DecDiv(left, right) IN Ok(QtyV(q.n, q.e, left.s))
           [] IsInt(left) /\ IsInt(right) -> Ok(DecDiv(left, right))
           [] OTHER -> PyTrueDiv(left, right)

_truncated_divide(left, right) ==
    IF IsZero(right) THEN Ok(Null) ELSE PyFloorDivInt(left, right)

_modulo(left, right) ==
    IF IsZero(right) THEN Ok(Null) ELSE PyMod(left, right)

(***************************************************************************)
(* Three-valued logic and equality.                                        *)
(***************************************************************************)
\* Python's bool(value)
Truthy(v) ==
    CASE IsNumber(v) -> v.n # 0
      [] v.t = "String" -> v.s # <<>>
      [] v.t \in {"List", "Dict"} -> v.items # <<>>
      [] v.t = "Quantity" -> TRUE
      [] OTHER -> FALSE

\* `value is True` and `value is False`: the identity tests of the two bool
\* singletons, which no int or other value satisfies.
IsTrue(v) == v.t = "Boolean" /\ v.n = 1

IsFalse(v) == v.t = "Boolean" /\ v.n = 0

\* A variant that tests for Null before it tests for False
_three_valued_and_null_first(left, right) ==
    IF IsNull(left) \/ IsNull(right) THEN Null
    ELSE IF IsFalse(left) \/ IsFalse(right) THEN False
    ELSE BoolV(Truthy(left) /\ Truthy(right))

_three_valued_and(left, right) ==
    IF IsFalse(left) \/ IsFalse(right) THEN False
    ELSE IF IsNull(left) \/ IsNull(right) THEN Null
    ELSE BoolV(Truthy(left) /\ Truthy(right))

_three_valued_or(left, right) ==
    IF IsTrue(left) \/ IsTrue(right) THEN True
    ELSE IF IsNull(left) \/ IsNull(right) THEN Null
    ELSE BoolV(Truthy(left) \/ Truthy(right))

_three_valued_xor(left, right) ==
    IF IsNull(left) \/ IsNull(right) THEN Null
    ELSE BoolV(Truthy(left) # Truthy(right))

_three_valued_implies(left, right) ==
    IF IsFalse(left) THEN True
    ELSE IF IsTrue(left) /\ IsTrue(right) THEN True
    ELSE IF IsTrue(left) /\ IsFalse(right) THEN False
    ELSE Null

RECURSIVE _equals(_, _)
_equals(left, right) ==
    IF IsNull(left) \/ IsNull(right) THEN Null
    ELSE IF left.t = "List" /\ right.t = "List"
    THEN IF Len(left.items) # Len(right.items) THEN False
         ELSE BoolV(\A i \in 1..Len(left.items) :
                        Truthy(_equals(left.items[i], right.items[i])))
    ELSE IF left.t = "Quantity" /\ right.t = "Quantity"
    THEN IF left.s # right.s THEN Null ELSE BoolV(NumEq(left, right))
    ELSE BoolV(PyEq(left, right))

(***************************************************************************)
(* The visitor's binary expression rules, on evaluated operands.           *)
(***************************************************************************)
\* A variant that tests for Null before it looks at the operator
visitAdditionExpressionTerm_null_first(op, left, right) ==
    IF IsNull(left) \/ IsNull(right) THEN Ok(Null)
    ELSE IF op = "&" THEN Ok(StrV(StrOf(left) \o StrOf(right)))
    ELSE IF op = "+" THEN _add(left, right)
    ELSE IF op = "-" THEN _subtract(left, right)
    ELSE Ok(Null)

visitAdditionExpressionTerm(op, left, right) ==
    IF op = "&"
    THEN LET left_str == IF ~IsNull(left) THEN StrOf(left) ELSE <<>>
             right_str == IF ~IsNull(right) THEN StrOf(right) ELSE <<>>
         IN  Ok(StrV(left_str \o right_str))
    ELSE IF IsNull(left) \/ IsNull(right) THEN Ok(Null)
    ELSE IF op = "+" THEN _add(left, right)
    ELSE IF op = "-" THEN _subtract(left, right)
    ELSE Ok(Null)

visitMultiplicationExpressionTerm(op, left, right) ==
    IF IsNull(left) \/ IsNull(right) THEN Ok(Null)
    ELSE IF op = "*" THEN _multiply(left, right)
    ELSE IF op = "/" THEN _divide(left, right)
    ELSE IF op = "div" THEN _truncated_divide(left, right)
    ELSE IF op = "mod" THEN _modulo(left, right)
    ELSE Ok(Null)

visitEqualityExpression(op, left, right) ==
    IF IsNull(left) \/ IsNull(right) THEN Ok(Null)
    ELSE IF op = "=" \/ op = "~" THEN Ok(_equals(left, right))
    ELSE IF op = "!=" \/ op = "!~"
    THEN LET result == _equals(left, right)
         IN  Ok(IF ~IsNull(result) THEN BoolV(~Truthy(result)) ELSE Null)
    ELSE Ok(Null)

visitInequalityExpression(op, left, right) ==
    IF IsNull(left) \/ IsNull(right) THEN Ok(Null)
    ELSE IF op \in {"<", "<=", ">", ">="} THEN PyCmp(op, left, right)
    ELSE Ok(Null)

visitAndExpression(left, right) == Ok(_three_valued_and(left, right))

visitOrExpression(op, left, right) ==
    IF op = "or" THEN Ok(_three_valued_or(left, right))
    ELSE IF op = "xor" THEN Ok(_three_valued_xor(left, right))
    ELSE Ok(Null)

visitImpliesExpression(left, right) == Ok(_three_valued_implies(left, right))

AdditionOps == {"+", "-", "&"}

MultiplicationOps == {"*", "/", "div", "mod"}

EqualityOps == {"=", "!=", "~", "!~"}

InequalityOps == {"<", "<=", ">", ">="}

BooleanOps == {"and", "or", "xor", "implies"}

BinaryOps == AdditionOps \cup MultiplicationOps \cup EqualityOps \cup InequalityOps
                \cup BooleanOps

\* The parser's dispatch of a binary expression to its visit method.
BinaryExpression(op, left, right) ==
    CASE op \in AdditionOps -> visitAdditionExpressionTerm(op, left, right)
      [] op \in MultiplicationOps -> visitMultiplicationExpressionTerm(op, left, right)
      [] op \in EqualityOps -> visitEqualityExpression(op, left, right)
      [] op \in InequalityOps -> visitInequalityExpression(op, left, right)
      [] op = "and" -> visitAndExpression(left, right)
      [] op \in {"or", "xor"} -> visitOrExpression(op, left, right)
      [] OTHER -> visitImpliesExpression(left, right)

(***************************************************************************)
(* Parse trees.  Every node has one shape: its rule (k), an identifier or  *)
(* operator (name), a literal value (v), its children (args) and, where    *)
(* the visitor reads it, the node's getText() (text).                      *)
(***************************************************************************)
Node(k, name, v, args, text) ==
    [k |-> k, name |-> name, v |-> v, args |-> args, text |-> text]

NoNode == Node("none", "", Null, <<>>, <<>>)

Lit(v) == Node("literal", "", v, <<>>, <<>>)

Ref(name) == Node("memberInvocation", name, Null, <<>>, <<>>)

Bin(op, l, r) == Node("binary", op, Null, <<l, r>>, <<>>)

ListSel(args) == Node("listSelector", "", Null, args, <<>>)

Call(name, args) == Node("functionInvocation", name, Null, args, <<>>)

Retrieve(resourceType) == Node("retrieve", resourceType, Null, <<>>, <<>>)

AliasedSource(alias, src) == Node("aliasedQuerySource", alias, Null, <<src>>, <<>>)

LetItem(ident, e) == Node("letClauseItem", ident, Null, <<e>>, <<>>)

SortByItem(dir, e) == Node("sortByItem", dir, Null, <<e>>, <<>>)

Absent == Node("absent", "", Null, <<>>, <<>>)

Sources(items) == Node("sourceClause", "", Null, items, <<>>)

Lets(items) == Node("letClause", "", Null, items, <<>>)

Where(e) == Node("whereClause", "", Null, <<e>>, <<>>)

Return(e, text) == Node("returnClause", "", Null, <<e>>, text)

\* sort asc / sort desc
SortDir(dir) == Node("sortClause", dir, Null, <<>>, <<>>)

\* sort by item, item, ...
SortBy(items) == Node("sortClause", "", Null, items, <<>>)

Query(sources, lets, where, return, sort) ==
    Node("query", "", Null, <<sources, lets, where, return, sort>>, <<>>)

(***************************************************************************)
(* The statements of a library tree, as the visit of each child returns    *)
(* them to visitLibrary, and the compiled CQLLibrary.                      *)
(***************************************************************************)
Statement(kind, name, parameters, tree, value) ==
    [kind |-> kind, name |-> name, parameters |-> parameters, tree |-> tree,
     value |-> value]

Define(name, tree) == Statement("ExpressionDefinition", name, <<>>, tree, Null)

Function(name, parameters, body) ==
    Statement("FunctionDefinition", name, parameters, body, Null)

ContextStmt(name) == Statement("context", name, <<>>, NoNode, Null)

Parameter(name, default) == Statement("ParameterDefinition", name, <<>>, NoNode, default)

CodeStmt(name, code) == Statement("CodeDefinition", name, <<>>, NoNode, code)

ConceptStmt(name, concept) == Statement("ConceptDefinition", name, <<>>, NoNode, concept)

\* A map as a function with a growing domain: m[name] = x.
Put(m, name, x) == [k \in DOMAIN m \cup {name} |-> IF k = name THEN x ELSE m[k]]

EmptyMap == [k \in {} |-> Null]

\* CQLLibrary(name=name, version=version)
NewLibrary ==
    [definitions |-> EmptyMap, functions |-> EmptyMap, parameters |-> EmptyMap,
     codes |-> EmptyMap, concepts |-> EmptyMap, valuesets |-> EmptyMap,
     codesystems |-> EmptyMap, contexts |-> <<>>, current_context |-> "None"]

\* visitExpressionDefinition: the definition keeps its unevaluated tree and
\* the current_context in effect.
ExpressionDefinition(lib, st) ==
    [name |-> st.name, expression_tree |-> st.tree, context |-> lib.current_context]

\* A variant that appends every context statement's name to contexts
_process_library_element_appending(lib, st) ==
    CASE st.kind = "CodeSystemDefinition" ->
            [lib EXCEPT !.codesystems = Put(@, st.name, st.value)]
      [] st.kind = "ValueSetDefinition" ->
            [lib EXCEPT !.valuesets = Put(@, st.name, st.value)]
      [] st.kind = "CodeDefinition" ->
            [lib EXCEPT !.codes = Put(@, st.name, st.value)]
      [] st.kind = "ConceptDefinition" ->
            [lib EXCEPT !.concepts = Put(@, st.name, st.value)]
      [] st.kind = "ParameterDefinition" ->
            [lib EXCEPT !.parameters = Put(@, st.name, st.value)]
      [] st.kind = "ExpressionDefinition" ->
            [lib EXCEPT !.definitions = Put(@, st.name, ExpressionDefinition(lib, st))]
      [] st.kind = "FunctionDefinition" ->
            [lib EXCEPT !.functions =
                Put(@, <<st.name, Len(st.parameters)>>,
                    [name |-> st.name, parameters |-> st.parameters,
                     body_tree |-> st.tree])]
      [] st.kind = "context" ->
            [lib EXCEPT !.contexts = Append(@, st.name),
                        !.current_context = st.name]
      [] OTHER -> lib

_process_library_element(lib, st) ==
    CASE st.kind = "CodeSystemDefinition" ->
            [lib EXCEPT !.codesystems = Put(@, st.name, st.value)]
      [] st.kind = "ValueSetDefinition" ->
            [lib EXCEPT !.valuesets = Put(@, st.name, st.value)]
      [] st.kind = "CodeDefinition" ->
            [lib EXCEPT !.codes = Put(@, st.name, st.value)]
      [] st.kind = "ConceptDefinition" ->
            [lib EXCEPT !.concepts = Put(@, st.name, st.value)]
      [] st.kind = "ParameterDefinition" ->
            [lib EXCEPT !.parameters = Put(@, st.name, st.value)]
      [] st.kind = "ExpressionDefinition" ->
            [lib EXCEPT !.definitions = Put(@, st.name, ExpressionDefinition(lib, st))]
      [] st.kind = "FunctionDefinition" ->
            [lib EXCEPT !.functions =
                Put(@, <<st.name, Len(st.parameters)>>,
                    [name |-> st.name, parameters |-> st.parameters,
                     body_tree |-> st.tree])]
      [] st.kind = "context" ->
            [lib EXCEPT !.contexts = IF st.name \in Range(@) THEN @ ELSE Append(@, st.name),
                        !.current_context = st.name]
      [] OTHER -> lib

(***************************************************************************)
(* The evaluation context (CQLContext): a stack of alias scopes, the bound *)
(* parameters and the resource the data source is asked about.  The memo   *)
(* map and the in-progress set belong to one root call and are shared by   *)
(* the contexts created during it.                                         *)
(***************************************************************************)
NewContext(resource, parameters) ==
    [scopes |-> << <<>> >>, resource |-> resource, parameters |-> parameters]

NoContext == [scopes |-> <<>>, resource |-> "", parameters |-> EmptyMap]

\* A child context for a function call: its own scope stack, the parent's
\* parameters and resource.
child(ctx) == NewContext(ctx.resource, ctx.parameters)

push_scope(ctx) == [ctx EXCEPT !.scopes = Append(@, <<>>)]

pop_scope(ctx) ==
    IF Len(ctx.scopes) > 1
    THEN [ctx EXCEPT !.scopes = SubSeq(@, 1, Len(@) - 1)]
    ELSE ctx

HasKey(entries, name) == \E i \in 1..Len(entries) : entries[i].key = name

Lookup(entries, name) ==
    LET i == CHOOSE j \in 1..Len(entries) : entries[j].key = name
    IN  entries[i].items[1]

\* dict[name] = value
SetKey(entries, name, value) ==
    IF HasKey(entries, name)
    THEN [i \in 1..Len(entries) |->
            IF entries[i].key = name THEN Entry(name, value) ELSE entries[i]]
    ELSE Append(entries, Entry(name, value))

set_alias(ctx, name, value) ==
    [ctx EXCEPT !.scopes[Len(ctx.scopes)] = SetKey(@, name, value)]

has_alias(ctx, name) == \E i \in 1..Len(ctx.scopes) : HasKey(ctx.scopes[i], name)

\* The innermost binding of the alias; None when there is none.
get_alias(ctx, name) ==
    IF has_alias(ctx, name)
    THEN LET hits == {i \in 1..Len(ctx.scopes) : HasKey(ctx.scopes[i], name)}
             top == CHOOSE i \in hits : \A j \in hits : j <= i
         IN  Lookup(ctx.scopes[top], name)
    ELSE Null

has_parameter(ctx, name) == name \in DOMAIN ctx.parameters

get_parameter(ctx, name) == ctx.parameters[name]

\* push_scope() followed by set_alias(alias, value) for every entry of the row
RowScope(ctx, row) ==
    LET pushed == push_scope(ctx)
    IN  [pushed EXCEPT !.scopes[Len(pushed.scopes)] = row.items]

get_cached_definition(cache, name) ==
    IF name \in DOMAIN cache THEN [found |-> TRUE, cached |-> cache[name]]
    ELSE [found |-> FALSE, cached |-> Null]

cache_definition(cache, name, value) == Put(cache, name, value)

\* False when the definition is already being evaluated
start_evaluation(inprogress, name) ==
    [ok |-> name \notin inprogress, evaluating |-> inprogress \cup {name}]

end_evaluation(inprogress, name) == inprogress \ {name}

(***************************************************************************)
(* The data source: the resources of each patient.                         *)
(***************************************************************************)
Patients == {"P1", "P2"}

data_source_retrieve(resource, resourceType) ==
    IF resource = "P1" THEN ListV(<<IntV(1)>>) ELSE ListV(<<IntV(1), IntV(2)>>)

(***************************************************************************)
(* The visitor as a stack machine.  control is what the walk does next:    *)
(* visit a node, return a value to the caller, or propagate an exception.  *)
(* stack holds one frame per visit method that waits for a child.          *)
(***************************************************************************)
Visit(node) == [mode |-> "visit", node |-> node, val |-> Null, err |-> ""]

Returned(v) == [mode |-> "return", node |-> NoNode, val |-> v, err |-> ""]

Raised(kind) == [mode |-> "raise", node |-> NoNode, val |-> Null, err |-> kind]

Stopped == [mode |-> "stopped", node |-> NoNode, val |-> Null, err |-> ""]

Outcome(r) == IF r.err = "" THEN Returned(r.val) ELSE Raised(r.err)

Frame(k, node) ==
    [k |-> k, node |-> node, name |-> "", stage |-> "", item |-> 0, idx |-> 0,
     rows |-> <<>>, acc |-> <<>>, vals |-> <<>>, saved |-> NoContext]

Push(stk, frame) == Append(stk, frame)

Pop(stk) == SubSeq(stk, 1, Len(stk) - 1)

Top(stk) == stk[Len(stk)]

(***************************************************************************)
(* Sorting as Python's sorted() does it: stable, by `<` alone, raising     *)
(* TypeError when two of the elements cannot be compared.                  *)
(***************************************************************************)
\* a < b on the sort keys (key is None, key) of the per-item sort
KeyLt(a, b) ==
    IF IsNull(a) # IsNull(b) THEN Ok(BoolV(IsNull(b)))
    ELSE IF IsNull(a) \/ PyEq(a, b) THEN Ok(False)
    ELSE PyCmp("<", a, b)

\* a < b on the elements themselves
ElemLt(a, b) == PyCmp("<", a, b)

Less(byKey, a, b) == IF byKey THEN KeyLt(a, b) ELSE ElemLt(a, b)

SortRaises(keys, byKey) ==
    \E i, j \in 1..Len(keys) : i # j /\ Less(byKey, keys[i], keys[j]).err # ""

\* sorted(items, key=..., reverse=reverse) for mutually comparable keys:
\* elements with equal keys keep their order, also under reverse.
SortedBy(items, keys, reverse, byKey) ==
    LET n == Len(items)
        lt(i, j) == IsTrue(Less(byKey, keys[i], keys[j]).val)
        Before(i, j) ==
            IF lt(i, j) THEN ~reverse
            ELSE IF lt(j, i) THEN reverse
            ELSE i < j
        rank(i) == 1 + Cardinality({j \in 1..n : j # i /\ Before(j, i)})
    IN  [p \in 1..n |-> items[CHOOSE i \in 1..n : rank(i) = p]]

NotNull(v) == ~IsNull(v)

\* The bare-direction form of _apply_sort_clause
SimpleSort(results, dir) ==
    IF dir = "" THEN results
    ELSE LET reverse == dir \in {"desc", "descending"}
             non_none == SelectSeq(results, NotNull)
             none_count == Len(results) - Len(non_none)
         IN  IF SortRaises(non_none, FALSE) THEN results
             ELSE SortedBy(non_none, non_none, reverse, FALSE)
                    \o [i \in 1..none_count |-> Null]

\* `item not in seen`: membership by Python's ==
InList(v, items) == \E i \in 1..Len(items) : PyEq(items[i], v)

RECURSIVE Distinct(_)
Distinct(items) ==
    IF items = <<>> THEN <<>>
    ELSE LET front == Distinct(SubSeq(items, 1, Len(items) - 1))
             last == items[Len(items)]
         IN  IF InList(last, front) THEN front ELSE Append(front, last)

\* text.startswith(prefix)
StartsWith(text, prefix) ==
    Len(text) >= Len(prefix) /\ SubSeq(text, 1, Len(prefix)) = prefix

\* needle in text
Contains(text, needle) ==
    \E i \in 0..(Len(text) - Len(needle)) : SubSeq(text, i + 1, i + Len(needle)) = needle

\* Python's str.lower() on character codes
Lower(text) == [i \in 1..Len(text) |-> IF text[i] \in 65..90 THEN text[i] + 32 ELSE text[i]]

\* The tail of _apply_return_clause: the modifier is read off the clause's
\* getText(), which holds the tokens without the whitespace between them.
ReturnResult(returned, text) ==
    LET distinct == \/ StartsWith(Lower(text), <<114, 101, 116, 117, 114, 110, 32,
                                                  100, 105, 115, 116, 105, 110, 99, 116>>)
                    \/ StartsWith(Lower(text), <<114, 101, 116, 117, 114, 110, 32,
                                                  97, 108, 108>>)
        is_all == Contains(Lower(text), <<97, 108, 108>>)
    IN  IF distinct /\ ~is_all THEN Distinct(returned) ELSE returned

(***************************************************************************)
(* The query engine.  A query frame records where visitQuery stands: the   *)
(* clause (stage), the clause item (item), the row (idx), the result set   *)
(* so far (rows) and what the running loop has collected (acc).            *)
(***************************************************************************)
QualId(name) == Node("qualifiedIdentifierExpression", name, Null, <<>>, <<>>)

SourceClauseOf(q) == q.args[1]

LetClauseOf(q) == q.args[2]

WhereClauseOf(q) == q.args[3]

ReturnClauseOf(q) == q.args[4]

SortClauseOf(q) == q.args[5]

\* A variant that takes the sort items in declaration order
SortItemOf_in_order(q, i) == SortClauseOf(q).args[i]

\* `for sort_item in reversed(sort_items)`: the item of the i-th pass
SortItemOf(q, i) == SortClauseOf(q).args[Len(SortClauseOf(q).args) + 1 - i]

\* _process_query_sources: one more source joined to the rows so far
JoinSource(results, alias, source_value) ==
    LET items == IF source_value.t = "List" THEN source_value.items
                 ELSE IF ~IsNull(source_value) THEN <<source_value>> ELSE <<>>
        n == Len(items)
    IN  IF results = <<>>
        THEN [i \in 1..n |-> DictV(<<Entry(alias, items[i])>>)]
        ELSE [p \in 1..(Len(results) * n) |->
                DictV(SetKey(results[((p - 1) \div n) + 1].items, alias,
                             items[((p - 1) % n) + 1]))]

\* From a frame that stands before (stage, item, idx): run every loop that has
\* nothing left to visit, up to the next expression to visit or to the end of
\* the query (stage "done", the result in rows).
RECURSIVE QResume(_)
QResume(fr) ==
    LET q == fr.node
        at(stage) == [fr EXCEPT !.stage = stage, !.item = 1, !.idx = 1, !.acc = <<>>]
    IN  CASE fr.stage = "source" ->
                IF fr.item <= Len(SourceClauseOf(q).args) THEN fr
                ELSE QResume(at("let"))
          [] fr.stage = "let" ->
                IF LetClauseOf(q).k = "absent" \/ fr.item > Len(LetClauseOf(q).args)
                THEN QResume(at("where"))
                ELSE IF fr.idx <= Len(fr.rows) THEN fr
                ELSE QResume([fr EXCEPT !.rows = fr.acc, !.acc = <<>>,
                                        !.item = fr.item + 1, !.idx = 1])
          [] fr.stage = "where" ->
                IF WhereClauseOf(q).k = "absent" THEN QResume(at("return"))
                ELSE IF fr.idx <= Len(fr.rows) THEN fr
                ELSE QResume([at("return") EXCEPT !.rows = fr.acc])
          [] fr.stage = "return" ->
                IF ReturnClauseOf(q).k = "absent" THEN QResume(at("sort"))
                ELSE IF fr.idx <= Len(fr.rows) THEN fr
                ELSE QResume([at("sort") EXCEPT
                                !.rows = ReturnResult(fr.acc, ReturnClauseOf(q).text)])
          [] fr.stage = "sort" ->
                IF SortClauseOf(q).k = "absent" THEN at("done")
                ELSE IF SortClauseOf(q).args = <<>>
                THEN [at("done") EXCEPT !.rows = SimpleSort(fr.rows, SortClauseOf(q).name)]
                ELSE IF fr.item > Len(SortClauseOf(q).args) THEN at("done")
                ELSE IF fr.idx <= Len(fr.rows) THEN fr
                ELSE LET reverse == SortItemOf(q, fr.item).name \in {"desc", "descending"}
                     IN  QResume([fr EXCEPT
                            !.rows = IF SortRaises(fr.acc, TRUE) THEN fr.rows
                                     ELSE SortedBy(fr.rows, fr.acc, reverse, TRUE),
                            !.acc = <<>>, !.item = fr.item + 1, !.idx = 1])
          [] OTHER -> fr

\* The expression visited at a frame's position
QVisit(fr) ==
    LET q == fr.node
    IN  CASE fr.stage = "source" -> SourceClauseOf(q).args[fr.item].args[1]
          [] fr.stage = "let" -> LetClauseOf(q).args[fr.item].args[1]
          [] fr.stage = "where" -> WhereClauseOf(q).args[1]
          [] fr.stage = "return" -> ReturnClauseOf(q).args[1]
          [] OTHER -> SortItemOf(q, fr.item).args[1]

\* The scope pushed for the visit at a frame's position: the row's aliases for
\* let, where and return, $this for a sort key, none for a source.
QScope(fr, ctx) ==
    CASE fr.stage = "source" -> ctx
      [] fr.stage = "sort" -> set_alias(push_scope(ctx), "$this", fr.rows[fr.idx])
      [] OTHER -> RowScope(ctx, fr.rows[fr.idx])

\* The walk at frame r, a position with an expression to visit or the end
QAt(r, stk, ctx) ==
    IF r.stage = "done"
    THEN [control |-> Returned(ListV(r.rows)), stack |-> stk, context |-> ctx]
    ELSE [control |-> Visit(QVisit(r)), stack |-> Push(stk, r),
          context |-> QScope(r, ctx)]

\* Go on with the query of frame fr (already taken off stk)
QContinue(fr, stk, ctx) == QAt(QResume(fr), stk, ctx)

\* A variant of the where clause that keeps the rows of a truthy condition
WhereKeeps_truthy(condition) == Truthy(condition)

\* `if condition is True` of _apply_where_clause
WhereKeeps(condition) == IsTrue(condition)

\* What a clause does with the value of the expression it visited: the frame
\* after this iteration (the scope is popped by the caller).
QAccept(fr, value) ==
    LET q == fr.node
        row == fr.rows[fr.idx]
        next == [fr EXCEPT !.idx = fr.idx + 1]
    IN  CASE fr.stage = "source" ->
                [fr EXCEPT !.item = fr.item + 1,
                           !.rows = JoinSource(fr.rows,
                                               SourceClauseOf(q).args[fr.item].name, value)]
          [] fr.stage = "let" ->
                [next EXCEPT !.acc = Append(fr.acc,
                    DictV(SetKey(row.items, LetClauseOf(q).args[fr.item].name, value)))]
          [] fr.stage = "where" ->
                IF WhereKeeps(value) THEN [next EXCEPT !.acc = Append(fr.acc, row)]
                ELSE next
          [] OTHER -> [next EXCEPT !.acc = Append(fr.acc, value)]

(***************************************************************************)
(* Function calls.                                                         *)
(***************************************************************************)
\* name.lower() for the function names the inputs use
LowerName(name) ==
    CASE name = "Count" -> "count"
      [] name = "Exists" -> "exists"
      [] name = "First" -> "first"
      [] name = "Last" -> "last"
      [] name = "Singleton" -> "singleton"
      [] name = "Sort" -> "sort"
      [] name = "singletonFrom" -> "singletonfrom"
      [] name = "Sum" -> "sum"
      [] name = "Avg" -> "avg"
      [] name = "Min" -> "min"
      [] name = "Max" -> "max"
      [] name = "Median" -> "median"
      [] name = "Mode" -> "mode"
      [] name = "Variance" -> "variance"
      [] name = "PopulationVariance" -> "populationvariance"
      [] name = "StdDev" -> "stddev"
      [] name = "PopulationStdDev" -> "populationstddev"
      [] name = "Product" -> "product"
      [] name = "GeometricMean" -> "geometricmean"
      [] OTHER -> name

(***************************************************************************)
(* The aggregate built-ins.                                                *)
(***************************************************************************)
\* A Python float, which int / int and float arithmetic give: kept as the
\* decimal number n / 10^e at the smallest scale that holds it (cut at
\* DivDigits digits where the quotient does not terminate).
FloatV(n, e) == [t |-> "Float", n |-> n, e |-> e, s |-> <<>>, key |-> "", items |-> <<>>]

RECURSIVE FloatOf(_, _)
FloatOf(n, e) == IF e > 0 /\ n % 10 = 0 THEN FloatOf(n \div 10, e - 1) ELSE FloatV(n, e)

\* The type of a + b, a - b, a * b: a float if one operand is a float, an int
\* if both are ints, a Decimal otherwise.
Typed(a, b, n, e) ==
    IF a.t = "Float" \/ b.t = "Float" THEN FloatOf(n, e) ELSE NumResult(a, b, n, e)

NumAdd(a, b) == LET k == Max2(a.e, b.e) IN Typed(a, b, Scaled(a, k) + Scaled(b, k), k)

NumSub(a, b) == LET k == Max2(a.e, b.e) IN Typed(a, b, Scaled(a, k) - Scaled(b, k), k)

\* a / b for b # 0: a Decimal for a Decimal, a float for an int or a float
NumDiv(a, b) ==
    LET q == DecDiv(a, b) IN IF a.t = "Decimal" THEN q ELSE FloatOf(q.n, q.e)

\* v ** 2 (a zero Decimal to a power is Decimal('0'), whatever its scale)
Squared(v) == IF v.n = 0 THEN Typed(v, v, 0, 0) ELSE Typed(v, v, v.n * v.n, v.e + v.e)

\* [v for v in args[0] if v is not None and isinstance(v, (int, float, Decimal))]
\* (literals and selectors give no float)
NumericValues(items) == SelectSeq(items, IsNumber)

\* sum(values), which starts from the int 0
RECURSIVE SumOf(_)
SumOf(values) ==
    IF values = <<>> THEN IntV(0)
    ELSE NumAdd(SumOf(SubSeq(values, 1, Len(values) - 1)), values[Len(values)])

\* min(values) and max(values): the first of the smallest (largest) values
MinOf(values) ==
    values[CHOOSE i \in 1..Len(values) :
              /\ \A j \in 1..Len(values) : ~NumLt(values[j], values[i])
              /\ \A j \in 1..(i - 1) : NumLt(values[i], values[j])]

MaxOf(values) ==
    values[CHOOSE i \in 1..Len(values) :
              /\ \A j \in 1..Len(values) : ~NumLt(values[i], values[j])
              /\ \A j \in 1..(i - 1) : NumLt(values[j], values[i])]

\* mean = sum(values) / len(values)
MeanOf(values) == NumDiv(SumOf(values), IntV(Len(values)))

\* sum((v - mean) ** 2 for v in values)
SquaresOf(values) ==
    LET mean == MeanOf(values)
    IN  SumOf([i \in 1..Len(values) |-> Squared(NumSub(values[i], mean))])

\* The populationvariance branch (divisor len(values)) and the variance
\* branch (divisor len(values) - 1)
VarianceOf(items, sample) ==
    LET values == NumericValues(items)
        least == IF sample THEN 2 ELSE 1
        divisor == IF sample THEN Len(values) - 1 ELSE Len(values)
    IN  IF Len(values) < least THEN Null
        ELSE NumDiv(SquaresOf(values), IntV(divisor))

\* mid ** n <= target, for mid >= 1
RECURSIVE PowerAtMost(_, _, _)
PowerAtMost(mid, n, target) ==
    IF n = 0 THEN 1 <= target ELSE PowerAtMost(mid, n - 1, target \div mid)

\* The largest r in lo..hi with r ** n <= target
RECURSIVE RootBetween(_, _, _, _)
RootBetween(lo, hi, n, target) ==
    IF lo >= hi THEN lo
    ELSE LET mid == (lo + hi + 1) \div 2
         IN  IF PowerAtMost(mid, n, target) THEN RootBetween(mid, hi, n, target)
             ELSE RootBetween(lo, mid - 1, n, target)

IntRoot(target, n) == RootBetween(0, target, n, target)

\* Decimal(v).sqrt() for v >= 0: exact at the smallest scale from the ideal
\* one (half the scale of v) that holds the root, cut at DivDigits digits
\* where there is none.
DecSqrt(v) ==
    LET lo == (v.e + 1) \div 2
        hi == Max2(lo, DivDigits)
        target(k) == v.n * Pow10(2 * k - v.e)
        exact(k) == IntRoot(target(k), 2) * IntRoot(target(k), 2) = target(k)
        ks == {k \in lo..hi : exact(k)}
        k == IF ks # {} THEN CHOOSE x \in ks : \A y \in ks : x <= y ELSE hi
    IN  DecV(IntRoot(target(k), 2), k)

\* The populationstddev and stddev branches
StdDevOf(items, sample) ==
    LET variance == VarianceOf(items, sample)
    IN  IF IsNull(variance) THEN Null ELSE DecSqrt(variance)

\* The median branch
MedianOf(items) ==
    LET numbers == NumericValues(items)
        values == SortedBy(numbers, numbers, FALSE, FALSE)
        n == Len(values)
    IN  IF n = 0 THEN Null
        ELSE IF n % 2 = 1 THEN values[(n \div 2) + 1]
        ELSE NumDiv(NumAdd(values[n \div 2], values[(n \div 2) + 1]), IntV(2))

\* The mode branch: counts is a dict, whose keys are the values by ==, in the
\* order they first occur; a value that cannot be hashed raises TypeError.
ModeOf(items) ==
    LET values == SelectSeq(items, NotNull)
        keys == Distinct(values)
        count(k) == Cardinality({i \in 1..Len(values) : PyEq(values[i], keys[k])})
        first == CHOOSE k \in 1..Len(keys) :
                    /\ \A j \in 1..Len(keys) : count(j) <= count(k)
                    /\ \A j \in 1..(k - 1) : count(j) < count(k)
    IN  IF values = <<>> THEN Ok(Null)
        ELSE IF \E i \in 1..Len(values) :
                   values[i].t \notin {"Boolean", "Integer", "Decimal", "String"}
        THEN Raise("TypeError")
        ELSE Ok(keys[first])

\* result = Decimal(1); result *= Decimal(str(v)) for each v
RECURSIVE TimesAll(_)
TimesAll(values) ==
    IF values = <<>> THEN DecV(1, 0)
    ELSE LET front == TimesAll(SubSeq(values, 1, Len(values) - 1))
             last == values[Len(values)]
         IN  DecV(front.n * last.n, front.e + last.e)

\* The product branch: str(True) is no number for Decimal
ProductOf(items) ==
    LET values == NumericValues(items)
    IN  IF values = <<>> THEN Ok(Null)
        ELSE IF \E i \in 1..Len(values) : values[i].t = "Boolean"
        THEN Raise("InvalidOperation")
        ELSE Ok(TimesAll(values))

\* Decimal(product) ** (Decimal(1) / Decimal(n)): the product itself for
\* n = 1, and for n > 1 the n-th root with the digits of the context, of
\* which DivDigits are kept after the point.
DecRoot(product, n) ==
    IF n = 1 THEN product
    ELSE LET k == Max2(DivDigits, (product.e + n - 1) \div n)
         IN  DecV(IntRoot(product.n * Pow10(n * k - product.e), n), k)

\* The geometricmean branch
GeometricMeanOf(items) ==
    LET values == NumericValues(items)
    IN  IF values = <<>> \/ \E i \in 1..Len(values) : ~NumLt(IntV(0), values[i])
        THEN Ok(Null)
        ELSE IF ProductOf(items).err # "" THEN ProductOf(items)
        ELSE Ok(DecRoot(ProductOf(items).val, Len(values)))

\* The branches of the built-in dispatcher that the inputs reach; a name the
\* dispatcher does not know falls through to `return None`.
_call_builtin_function(name, args) ==
    LET name_lower == LowerName(name)
        isList == args # <<>> /\ args[1].t = "List"
    IN  CASE name_lower = "count" ->
                IF isList THEN Ok(IntV(Len(args[1].items))) ELSE Ok(IntV(0))
          [] name_lower = "exists" ->
                IF args # <<>>
                THEN IF isList THEN Ok(BoolV(Len(args[1].items) > 0))
                     ELSE Ok(BoolV(~IsNull(args[1])))
                ELSE Ok(False)
          [] name_lower = "first" ->
                IF isList /\ Len(args[1].items) > 0 THEN Ok(args[1].items[1]) ELSE Ok(Null)
          [] name_lower = "last" ->
                IF isList /\ Len(args[1].items) > 0
                THEN Ok(args[1].items[Len(args[1].items)]) ELSE Ok(Null)
          [] name_lower = "singleton" ->
                IF isList
                THEN IF Len(args[1].items) = 1 THEN Ok(args[1].items[1])
                     ELSE IF Len(args[1].items) = 0 THEN Ok(Null)
                     ELSE Raise("CQLError: Expected single element but found multiple")
                ELSE IF args # <<>> THEN Ok(args[1]) ELSE Ok(Null)
          [] name_lower = "sort" ->
                IF isList
                THEN LET items == SelectSeq(args[1].items, NotNull)
                     IN  IF SortRaises(items, FALSE) THEN Ok(ListV(items))
                         ELSE Ok(ListV(SortedBy(items, items, FALSE, FALSE)))
                ELSE Ok(ListV(<<>>))
          [] name_lower \in {"sum", "avg", "min", "max"} ->
                IF isList /\ NumericValues(args[1].items) # <<>>
                THEN LET values == NumericValues(args[1].items)
                     IN  CASE name_lower = "sum" -> Ok(SumOf(values))
                           [] name_lower = "avg" -> Ok(MeanOf(values))
                           [] name_lower = "min" -> Ok(MinOf(values))
                           [] OTHER -> Ok(MaxOf(values))
                ELSE Ok(Null)
          [] name_lower = "populationvariance" ->
                IF isList THEN Ok(VarianceOf(args[1].items, FALSE)) ELSE Ok(Null)
          [] name_lower = "variance" ->
                IF isList THEN Ok(VarianceOf(args[1].items, TRUE)) ELSE Ok(Null)
          [] name_lower = "populationstddev" ->
                IF isList THEN Ok(StdDevOf(args[1].items, FALSE)) ELSE Ok(Null)
          [] name_lower = "stddev" ->
                IF isList THEN Ok(StdDevOf(args[1].items, TRUE)) ELSE Ok(Null)
          [] name_lower = "median" ->
                IF isList THEN Ok(MedianOf(args[1].items)) ELSE Ok(Null)
          [] name_lower = "mode" -> IF isList THEN ModeOf(args[1].items) ELSE Ok(Null)
          [] name_lower = "product" ->
                IF isList THEN ProductOf(args[1].items) ELSE Ok(Null)
          [] name_lower = "geometricmean" ->
                IF isList THEN GeometricMeanOf(args[1].items) ELSE Ok(Null)
          [] name_lower = "singletonFrom" ->
                IF isList
                THEN IF Len(args[1].items) = 1 THEN Ok(args[1].items[1])
                     ELSE IF Len(args[1].items) = 0 THEN Ok(Null)
                     ELSE Raise("CQLError: Expected single element but found multiple")
                ELSE IF args # <<>> THEN Ok(args[1]) ELSE Ok(Null)
          [] OTHER -> Ok(Null)

\* library.get_function(name, arity)
get_function(lib, name, arity) ==
    IF <<name, arity>> \in DOMAIN lib.functions
    THEN [found |-> TRUE, func |-> lib.functions[<<name, arity>>]]
    ELSE [found |-> FALSE, func |-> [name |-> "", parameters |-> <<>>, body_tree |-> NoNode]]

\* child_ctx.set_alias(param_name, arg_value) for zip(func.parameters, args)
RECURSIVE BindParameters(_, _, _)
BindParameters(ctx, parameters, args) ==
    IF parameters = <<>> \/ args = <<>> THEN ctx
    ELSE BindParameters(set_alias(ctx, Head(parameters), Head(args)), Tail(parameters),
                        Tail(args))

\* _call_user_function up to the visit of the body: the body runs in a child
\* context, the caller's context waits in the frame.
_call_user_function(func, args, stk, ctx) ==
    [control |-> Visit(func.body_tree),
     stack |-> Push(stk, [Frame("userFunction", func.body_tree) EXCEPT
                            !.name = func.name, !.saved = ctx]),
     context |-> BindParameters(child(ctx), func.parameters, args)]

\* A variant that consults the built-in table first
_call_function_builtin_first(lib, name, args, stk, ctx) ==
    LET got == get_function(lib, name, Len(args))
    IN  IF got.found /\ got.func.body_tree # NoNode /\ LowerName(name) = name
        THEN _call_user_function(got.func, args, stk, ctx)
        ELSE [control |-> Outcome(_call_builtin_function(name, args)), stack |-> stk,
              context |-> ctx]

_call_function(lib, name, args, stk, ctx) ==
    LET got == get_function(lib, name, Len(args))
    IN  IF got.found /\ got.func.body_tree # NoNode
        THEN _call_user_function(got.func, args, stk, ctx)
        ELSE [control |-> Outcome(_call_builtin_function(name, args)), stack |-> stk,
              context |-> ctx]

(***************************************************************************)
(* Library definitions: lazy evaluation, memoization, recursion guard.     *)
(***************************************************************************)
\* A variant that never looks a definition up in the memo map
_evaluate_definition_uncached(lib, name, cache, inprogress, stk) ==
    LET started == start_evaluation(inprogress, name)
    IN  IF ~started.ok
        THEN [control |-> Raised("CQLError: Recursive definition detected"),
              stack |-> stk, evaluating |-> inprogress]
        ELSE IF name \notin DOMAIN lib.definitions
                \/ lib.definitions[name].expression_tree = NoNode
        THEN [control |-> Returned(Null), stack |-> stk,
              evaluating |-> end_evaluation(started.evaluating, name)]
        ELSE [control |-> Visit(lib.definitions[name].expression_tree),
              stack |-> Push(stk, [Frame("definition", lib.definitions[name].expression_tree)
                                      EXCEPT !.name = name]),
              evaluating |-> started.evaluating]

\* A variant that answers a reference to a definition in progress with Null
_evaluate_definition_unguarded(lib, name, cache, inprogress, stk) ==
    LET got == get_cached_definition(cache, name)
        started == start_evaluation(inprogress, name)
    IN  IF got.found
        THEN [control |-> Returned(got.cached), stack |-> stk, evaluating |-> inprogress]
        ELSE IF ~started.ok
        THEN [control |-> Returned(Null), stack |-> stk, evaluating |-> inprogress]
        ELSE IF name \notin DOMAIN lib.definitions
                \/ lib.definitions[name].expression_tree = NoNode
        THEN [control |-> Returned(Null), stack |-> stk,
              evaluating |-> end_evaluation(started.evaluating, name)]
        ELSE [control |-> Visit(lib.definitions[name].expression_tree),
              stack |-> Push(stk, [Frame("definition", lib.definitions[name].expression_tree)
                                      EXCEPT !.name = name]),
              evaluating |-> started.evaluating]

\* _evaluate_definition up to the visit of the definition's tree
_evaluate_definition(lib, name, cache, inprogress, stk) ==
    LET got == get_cached_definition(cache, name)
        started == start_evaluation(inprogress, name)
    IN  IF got.found
        THEN [control |-> Returned(got.cached), stack |-> stk, evaluating |-> inprogress]
        ELSE IF ~started.ok
        THEN [control |-> Raised("CQLError: Recursive definition detected"),
              stack |-> stk, evaluating |-> inprogress]
        ELSE IF name \notin DOMAIN lib.definitions
                \/ lib.definitions[name].expression_tree = NoNode
        THEN [control |-> Returned(Null), stack |-> stk,
              evaluating |-> end_evaluation(started.evaluating, name)]
        ELSE [control |-> Visit(lib.definitions[name].expression_tree),
              stack |-> Push(stk, [Frame("definition", lib.definitions[name].expression_tree)
                                      EXCEPT !.name = name]),
              evaluating |-> started.evaluating]

\* A variant that memoizes by storing the result in the library's definition
_evaluate_definition_return_in_library(lib, name, result, cache, inprogress) ==
    [library |-> [lib EXCEPT !.definitions[name].expression_tree = Lit(result)],
     definition_cache |-> cache_definition(cache, name, result),
     evaluating |-> end_evaluation(inprogress, name)]

\* _evaluate_definition once the tree's visit has returned: cache the result;
\* the finally clause ends the evaluation.  The library is only read.
_evaluate_definition_return(lib, name, result, cache, inprogress) ==
    [library |-> lib,
     definition_cache |-> cache_definition(cache, name, result),
     evaluating |-> end_evaluation(inprogress, name)]

\* A variant without the finally clause
_evaluate_definition_raise_unreleased(name, cache, inprogress) ==
    [definition_cache |-> cache, evaluating |-> inprogress]

\* _evaluate_definition when the tree's visit raises: only the finally clause runs.
_evaluate_definition_raise(name, cache, inprogress) ==
    [definition_cache |-> cache, evaluating |-> end_evaluation(inprogress, name)]

(***************************************************************************)
(* State.                                                                  *)
(***************************************************************************)
VARIABLES
    tree,              \* the children of the library's parse tree
    pos,               \* how many of them visitLibrary has processed
    library,           \* the visitor's CQLLibrary
    pc,                \* "compile", "idle" (between root calls) or "eval"
    calls,             \* root calls started so far
    root,              \* the running (or last) root call: definition and resource
    context,           \* the visitor's active context (self.context)
    definition_cache,  \* the root call's memo map
    evaluating,        \* the root call's in-progress set
    control,           \* what the tree walk does next
    stack,             \* the frames of the visit methods waiting for a child
    outcome,           \* how the last root call ended
    visits,            \* per definition: visits of its tree started in this root call
    completed,         \* per definition: visits of its tree that returned
    retrieves,         \* data source calls of this root call
    opName,            \* a binary operator applied to two operand values,
    opLeft,            \*   its operands,
    opRight,
    opResult           \*   and the outcome of the visit method

evalVars ==
    <<tree, pos, library, pc, calls, root, context, definition_cache, evaluating,
      control, stack, outcome, visits, completed, retrieves>>

opVars == <<opName, opLeft, opRight, opResult>>

vars == <<evalVars, opVars>>

(***************************************************************************)
(* Inputs: the libraries that are compiled and evaluated.                  *)
(***************************************************************************)
MaxRootCalls == 2

DefNames == {"A", "B", "C", "D", "X", "R", "W", "S", "T", "U", "V", "Z", "J", "K", "G",
             "I", "H", "SA", "SD", "SF", "M"}

Text_return(tail) == <<114, 101, 116, 117, 114, 110>> \o tail

\* ({1, 2}) N let L: A where N <= 2 return B sort by C asc, C desc
QueryBody ==
    Query(Sources(<<AliasedSource("N", ListSel(<<Lit(IntV(1)), Lit(IntV(2))>>))>>),
          Lets(<<LetItem("L", Ref("A"))>>),
          Where(Bin("<=", Ref("N"), Lit(IntV(2)))),
          Return(Ref("B"), Text_return(<<66>>)),
          SortBy(<<SortByItem("asc", Ref("C")), SortByItem("desc", Ref("C"))>>))

\* B X
SourceQuery == Query(Sources(<<AliasedSource("X", QualId("B"))>>), Absent, Absent, Absent,
                     Absent)

\* The bodies of A, which D binds in its let clause
Bodies ==
    { Lit(Null),
      Retrieve("Condition"),
      Ref("A"), Ref("B"), SourceQuery,
      Bin("=", Ref("A"), Ref("A")),
      Bin("<", Lit(IntV(1)), Lit(StrV(ChA))),
      Call("Singleton", <<Ref("A")>>),
      Call("F", <<Ref("B")>>) }

\* The bodies of B, which D returns for each row
ReturnBodies ==
    { Lit(Null),
      Retrieve("Condition"),
      Ref("A"),
      Bin("=", Ref("A"), Ref("A")),
      Bin("<", Lit(IntV(1)), Lit(StrV(ChA))),
      Call("Singleton", <<Ref("A")>>) }

\* The bodies of C, the sort key of D
SortKeyBodies ==
    { Lit(Null),
      Retrieve("Condition"),
      SourceQuery,
      Bin("<", Lit(IntV(1)), Lit(StrV(ChA))),
      Call("F", <<Ref("B")>>) }

\* define function F(x): x & A
FunctionF == Function("F", <<"x">>, Bin("&", Ref("x"), Ref("A")))

Libraries ==
    { <<ContextStmt("Patient"), Define("A", a), Define("B", b), Define("C", c),
        Define("D", QueryBody), FunctionF>> :
        a \in Bodies, b \in ReturnBodies, c \in SortKeyBodies }

NoOutcome == [name |-> "", resource |-> "", err |-> "", val |-> Null]

\* The names of the expression definitions of the library tree
DefinedNames == {tree[i].name : i \in {j \in 1..Len(tree) : tree[j].kind = "ExpressionDefinition"}}

\* No visit and no completed evaluation yet, for each definition
ZeroCount == [d \in DefinedNames |-> 0]

EvalInit ==
    /\ tree \in Libraries
    /\ pos = 0
    /\ library = NewLibrary
    /\ pc = "compile"
    /\ calls = 0
    /\ root = [name |-> "", resource |-> ""]
    /\ context = NoContext
    /\ definition_cache = EmptyMap
    /\ evaluating = {}
    /\ control = Stopped
    /\ stack = <<>>
    /\ outcome = NoOutcome
    /\ visits = ZeroCount
    /\ completed = ZeroCount
    /\ retrieves = 0

OpIdle ==
    /\ opName = ""
    /\ opLeft = Null
    /\ opRight = Null
    /\ opResult = Ok(Null)

Init == EvalInit /\ OpIdle

(***************************************************************************)
(* Compilation: visitLibrary visits the children of the tree in order.     *)
(***************************************************************************)
visitLibrary ==
    /\ pc = "compile"
    /\ pos < Len(tree)
    /\ library' = _process_library_element(library, tree[pos + 1])
    /\ pos' = pos + 1
    /\ pc' = IF pos + 1 = Len(tree) THEN "idle" ELSE "compile"
    /\ UNCHANGED <<tree, calls, root, context, definition_cache, evaluating, control,
                   stack, outcome, visits, completed, retrieves, opVars>>

(***************************************************************************)
(* Root calls.                                                             *)
(***************************************************************************)
\* A variant that keeps the memo state of the call before
NewRootCall_reused(cache, inprogress) ==
    [definition_cache |-> cache, evaluating |-> inprogress]

\* The memo state a root call starts from
NewRootCall(cache, inprogress) == [definition_cache |-> EmptyMap, evaluating |-> {}]

\* visits with one more visit of name's tree when the step pushed its frame
Visited(r, name) ==
    IF Len(r.stack) > Len(stack) THEN [visits EXCEPT ![name] = @ + 1] ELSE visits

\* evaluate_definition(name, resource): a context for the resource, fresh memo
\* state, then the definition is evaluated as a reference to it is.
evaluate_definition(name, resource) ==
    /\ pc = "idle"
    /\ calls < MaxRootCalls
    /\ name \in DOMAIN library.definitions
    /\ LET fresh == NewRootCall(definition_cache, evaluating)
           r == _evaluate_definition(library, name, fresh.definition_cache,
                                     fresh.evaluating, <<>>)
       IN  /\ control' = r.control
           /\ stack' = r.stack
           /\ evaluating' = r.evaluating
           /\ definition_cache' = fresh.definition_cache
           /\ visits' = IF Len(r.stack) > 0 THEN [ZeroCount EXCEPT ![name] = 1]
                        ELSE ZeroCount
    /\ context' = NewContext(resource, library.parameters)
    /\ pc' = "eval"
    /\ calls' = calls + 1
    /\ root' = [name |-> name, resource |-> resource]
    /\ completed' = ZeroCount
    /\ retrieves' = 0
    /\ UNCHANGED <<tree, pos, library, outcome, opVars>>

\* The root call ends: its value or its error goes to the caller.
evaluate_definition_end ==
    /\ pc = "eval"
    /\ stack = <<>>
    /\ control.mode \in {"return", "raise"}
    /\ outcome' = [name |-> root.name, resource |-> root.resource,
                   err |-> control.err, val |-> control.val]
    /\ control' = Stopped
    /\ pc' = "idle"
    /\ UNCHANGED <<tree, pos, library, calls, root, context, definition_cache,
                   evaluating, stack, visits, completed, retrieves, opVars>>

(***************************************************************************)
(* Visits.                                                                 *)
(***************************************************************************)
Visiting(k) == pc = "eval" /\ control.mode = "visit" /\ control.node.k = k

Returning(k) ==
    pc = "eval" /\ control.mode = "return" /\ stack # <<>> /\ Top(stack).k = k

Raising(k) ==
    pc = "eval" /\ control.mode = "raise" /\ stack # <<>> /\ Top(stack).k = k

unchangedByVisit == <<tree, pos, library, pc, calls, root, outcome, opVars>>

\* The walk goes on as r says, in the context r says
Goes(r) == control' = r.control /\ stack' = r.stack /\ context' = r.context

\* The walk goes on as r says, toward a definition or a value
GoesToDefinition(r, name) ==
    /\ control' = r.control
    /\ stack' = r.stack
    /\ evaluating' = r.evaluating
    /\ visits' = Visited(r, name)

visitLiteral ==
    /\ Visiting("literal")
    /\ control' = Returned(control.node.v)
    /\ UNCHANGED <<unchangedByVisit, context, definition_cache, evaluating, stack,
                   visits, completed, retrieves>>

\* The resolution of a bare identifier
MemberInvocation(lib, name, ctx, cache, inprogress, stk) ==
    LET value(v) == [control |-> Returned(v), stack |-> stk, evaluating |-> inprogress]
    IN  IF has_alias(ctx, name) THEN value(get_alias(ctx, name))
        ELSE IF has_parameter(ctx, name) THEN value(get_parameter(ctx, name))
        ELSE IF name \in DOMAIN lib.definitions
        THEN _evaluate_definition(lib, name, cache, inprogress, stk)
        ELSE IF name \in DOMAIN lib.codes THEN value(lib.codes[name])
        ELSE IF name \in DOMAIN lib.concepts THEN value(lib.concepts[name])
        ELSE value(Null)

visitMemberInvocation ==
    /\ Visiting("memberInvocation")
    /\ GoesToDefinition(MemberInvocation(library, control.node.name, context,
                                         definition_cache, evaluating, stack),
                        control.node.name)
    /\ UNCHANGED <<unchangedByVisit, context, definition_cache, completed, retrieves>>

\* The third branch of _evaluate_query_source: a bare identifier as a source
QuerySourceIdentifier(lib, name, ctx, cache, inprogress, stk) ==
    IF name \in DOMAIN lib.definitions
    THEN _evaluate_definition(lib, name, cache, inprogress, stk)
    ELSE [control |-> Returned(get_alias(ctx, name)), stack |-> stk,
          evaluating |-> inprogress]

_evaluate_query_source ==
    /\ Visiting("qualifiedIdentifierExpression")
    /\ GoesToDefinition(QuerySourceIdentifier(library, control.node.name, context,
                                              definition_cache, evaluating, stack),
                        control.node.name)
    /\ UNCHANGED <<unchangedByVisit, context, definition_cache, completed, retrieves>>

\* A binary expression visits its left operand first.
visitBinaryExpression ==
    /\ Visiting("binary")
    /\ stack' = Push(stack, Frame("binary", control.node))
    /\ control' = Visit(control.node.args[1])
    /\ UNCHANGED <<unchangedByVisit, context, definition_cache, evaluating, visits,
                   completed, retrieves>>

visitListSelector ==
    /\ Visiting("listSelector")
    /\ IF control.node.args = <<>>
       THEN control' = Returned(ListV(<<>>)) /\ stack' = stack
       ELSE /\ stack' = Push(stack, Frame("listSelector", control.node))
            /\ control' = Visit(control.node.args[1])
    /\ UNCHANGED <<unchangedByVisit, context, definition_cache, evaluating, visits,
                   completed, retrieves>>

visitFunctionInvocation ==
    /\ Visiting("functionInvocation")
    /\ IF control.node.args = <<>>
       THEN Goes(_call_function(library, control.node.name, <<>>, stack, context))
       ELSE /\ stack' = Push(stack, Frame("functionInvocation", control.node))
            /\ control' = Visit(control.node.args[1])
            /\ context' = context
    /\ UNCHANGED <<unchangedByVisit, definition_cache, evaluating, visits, completed,
                   retrieves>>

visitRetrieve ==
    /\ Visiting("retrieve")
    /\ control' = Returned(data_source_retrieve(context.resource, control.node.name))
    /\ retrieves' = retrieves + 1
    /\ UNCHANGED <<unchangedByVisit, context, definition_cache, evaluating, stack,
                   visits, completed>>

visitQuery ==
    /\ Visiting("query")
    /\ Goes(QContinue([Frame("query", control.node) EXCEPT
                           !.stage = "source", !.item = 1, !.idx = 1],
                       stack, context))
    /\ UNCHANGED <<unchangedByVisit, definition_cache, evaluating, visits, completed,
                   retrieves>>

(***************************************************************************)
(* Returns: the value of a visited child reaches the waiting method.       *)
(***************************************************************************)
\* The left operand goes to the frame and the right one is visited; the
\* right operand completes the expression.
returnToBinaryExpression ==
    /\ Returning("binary")
    /\ LET fr == Top(stack)
       IN  IF fr.vals = <<>>
           THEN /\ stack' = Push(Pop(stack), [fr EXCEPT !.vals = <<control.val>>])
                /\ control' = Visit(fr.node.args[2])
           ELSE /\ stack' = Pop(stack)
                /\ control' = Outcome(BinaryExpression(fr.node.name, fr.vals[1],
                                                       control.val))
    /\ UNCHANGED <<unchangedByVisit, context, definition_cache, evaluating, visits,
                   completed, retrieves>>

returnToListSelector ==
    /\ Returning("listSelector")
    /\ LET fr == Top(stack)
           result == Append(fr.vals, control.val)
       IN  IF Len(result) < Len(fr.node.args)
           THEN /\ stack' = Push(Pop(stack), [fr EXCEPT !.vals = result])
                /\ control' = Visit(fr.node.args[Len(result) + 1])
           ELSE /\ stack' = Pop(stack)
                /\ control' = Returned(ListV(result))
    /\ UNCHANGED <<unchangedByVisit, context, definition_cache, evaluating, visits,
                   completed, retrieves>>

\* The last argument's value starts the call.
returnToFunctionInvocation ==
    /\ Returning("functionInvocation")
    /\ LET fr == Top(stack)
           args == Append(fr.vals, control.val)
       IN  IF Len(args) < Len(fr.node.args)
           THEN /\ stack' = Push(Pop(stack), [fr EXCEPT !.vals = args])
                /\ control' = Visit(fr.node.args[Len(args) + 1])
                /\ context' = context
           ELSE Goes(_call_function(library, fr.node.name, args, Pop(stack), context))
    /\ UNCHANGED <<unchangedByVisit, definition_cache, evaluating, visits, completed,
                   retrieves>>

returnToEvaluateDefinition ==
    /\ Returning("definition")
    /\ LET name == Top(stack).name
           r == _evaluate_definition_return(library, name, control.val,
                                            definition_cache, evaluating)
       IN  /\ library' = r.library
           /\ definition_cache' = r.definition_cache
           /\ evaluating' = r.evaluating
           /\ completed' = [completed EXCEPT ![name] = @ + 1]
    /\ stack' = Pop(stack)
    /\ control' = Returned(control.val)
    /\ UNCHANGED <<tree, pos, pc, calls, root, outcome, opVars, context, visits,
                   retrieves>>

\* finally: self.context = old_ctx
_call_user_function_finally(ctx, old_ctx) == old_ctx

returnToCallUserFunction ==
    /\ Returning("userFunction")
    /\ context' = _call_user_function_finally(context, Top(stack).saved)
    /\ stack' = Pop(stack)
    /\ control' = Returned(control.val)
    /\ UNCHANGED <<unchangedByVisit, definition_cache, evaluating, visits, completed,
                   retrieves>>

\* A variant that pops no scope
RowFinally_unreleased(ctx, stage) == ctx

\* finally: self.context.pop_scope(), of the let, where, return and sort-key
\* steps (a source is visited without a scope of its own)
RowFinally(ctx, stage) == IF stage = "source" THEN ctx ELSE pop_scope(ctx)

returnToQuery ==
    /\ Returning("query")
    /\ Goes(QContinue(QAccept(Top(stack), control.val), Pop(stack),
                       RowFinally(context, Top(stack).stage)))
    /\ UNCHANGED <<unchangedByVisit, definition_cache, evaluating, visits, completed,
                   retrieves>>

(***************************************************************************)
(* Exceptions: a raised error leaves the waiting methods one by one,       *)
(* running their finally clauses, until a handler catches it.              *)
(***************************************************************************)
\* Methods without a handler or finally clause
raiseThrough ==
    /\ \/ Raising("binary")
       \/ Raising("listSelector")
       \/ Raising("functionInvocation")
       \/ Raising("query") /\ Top(stack).stage = "source"
    /\ stack' = Pop(stack)
    /\ UNCHANGED <<unchangedByVisit, control, context, definition_cache, evaluating,
                   visits, completed, retrieves>>

raiseThroughEvaluateDefinition ==
    /\ Raising("definition")
    /\ LET r == _evaluate_definition_raise(Top(stack).name, definition_cache, evaluating)
       IN  definition_cache' = r.definition_cache /\ evaluating' = r.evaluating
    /\ stack' = Pop(stack)
    /\ UNCHANGED <<unchangedByVisit, control, context, visits, completed, retrieves>>

raiseThroughCallUserFunction ==
    /\ Raising("userFunction")
    /\ context' = _call_user_function_finally(context, Top(stack).saved)
    /\ stack' = Pop(stack)
    /\ UNCHANGED <<unchangedByVisit, control, definition_cache, evaluating, visits,
                   completed, retrieves>>

\* The let, where and return loops: the row's scope is popped, the error goes on.
raiseThroughQueryRow ==
    /\ Raising("query")
    /\ Top(stack).stage \in {"let", "where", "return"}
    /\ context' = RowFinally(context, Top(stack).stage)
    /\ stack' = Pop(stack)
    /\ UNCHANGED <<unchangedByVisit, control, definition_cache, evaluating, visits,
                   completed, retrieves>>

\* A sort key: the scope is popped; sorted() lets the error through and
\* `except TypeError: pass` keeps the order and goes on with the next item.
raiseThroughSortKey ==
    /\ Raising("query")
    /\ Top(stack).stage = "sort"
    /\ IF control.err = "TypeError"
       THEN Goes(QContinue([Top(stack) EXCEPT !.item = @ + 1, !.idx = 1, !.acc = <<>>],
                           Pop(stack), RowFinally(context, "sort")))
       ELSE /\ control' = control
            /\ stack' = Pop(stack)
            /\ context' = RowFinally(context, "sort")
    /\ UNCHANGED <<unchangedByVisit, definition_cache, evaluating, visits, completed,
                   retrieves>>

EvalNext ==
    \/ visitLibrary
    \/ \E name \in DefNames, resource \in Patients : evaluate_definition(name, resource)
    \/ evaluate_definition_end
    \/ visitLiteral
    \/ visitMemberInvocation
    \/ _evaluate_query_source
    \/ visitBinaryExpression
    \/ visitListSelector
    \/ visitFunctionInvocation
    \/ visitRetrieve
    \/ visitQuery
    \/ returnToBinaryExpression
    \/ returnToListSelector
    \/ returnToFunctionInvocation
    \/ returnToEvaluateDefinition
    \/ returnToCallUserFunction
    \/ returnToQuery
    \/ raiseThrough
    \/ raiseThroughEvaluateDefinition
    \/ raiseThroughCallUserFunction
    \/ raiseThroughQueryRow
    \/ raiseThroughSortKey

Next == EvalNext

Spec == Init /\ [][Next]_vars

(***************************************************************************)
(* The type operators `is` and `as` on an evaluated operand and the text   *)
(* of the type specifier.                                                  *)
(***************************************************************************)
\* 'String'
Text_String == <<83, 116, 114, 105, 110, 103>>

\* 'Integer'
Text_Integer == <<73, 110, 116, 101, 103, 101, 114>>

\* 'Decimal'
Text_Decimal == <<68, 101, 99, 105, 109, 97, 108>>

\* 'Boolean'
Text_Boolean == <<66, 111, 111, 108, 101, 97, 110>>

\* 'Date'
Text_Date == <<68, 97, 116, 101>>

\* 'Quantity'
Text_Quantity == <<81, 117, 97, 110, 116, 105, 116, 121>>

TypeNames == {Text_String, Text_Integer, Text_Decimal, Text_Boolean, Text_Date, Text_Quantity}

\* type_lower in (name, 'system.' + name), for the lower-case name
TypeNamed(type_lower, name) ==
    type_lower \in {name, <<115, 121, 115, 116, 101, 109, 46>> \o name}

\* _check_type
_check_type(value, type_name) ==
    LET type_lower == Lower(type_name)
    IN  IF IsNull(value) THEN False
        ELSE IF TypeNamed(type_lower, Lower(Text_Boolean)) THEN BoolV(value.t = "Boolean")
        ELSE IF TypeNamed(type_lower, Lower(Text_Integer)) THEN BoolV(value.t = "Integer")
        ELSE IF TypeNamed(type_lower, Lower(Text_Decimal)) THEN BoolV(value.t = "Decimal")
        ELSE IF TypeNamed(type_lower, Lower(Text_String)) THEN BoolV(value.t = "String")
        ELSE IF TypeNamed(type_lower, Lower(Text_Date)) THEN BoolV(value.t = "Date")
        ELSE IF TypeNamed(type_lower, Lower(Text_Quantity)) THEN BoolV(value.t = "Quantity")
        ELSE False

IsDigits(s) == s # <<>> /\ \A i \in 1..Len(s) : s[i] \in 48..57

RECURSIVE DigitsValue(_)
DigitsValue(s) ==
    IF s = <<>> THEN 0 ELSE 10 * DigitsValue(SubSeq(s, 1, Len(s) - 1)) + (s[Len(s)] - 48)

\* A numeral without its sign, and the sign
Unsigned(s) == IF s # <<>> /\ s[1] \in {43, 45} THEN Tail(s) ELSE s

SignOf(s) == IF s # <<>> /\ s[1] = 45 THEN -1 ELSE 1

\* int(value): a bool or an int as it is, a Decimal truncated towards zero, a
\* str parsed as a signed numeral (ValueError when it is not one); TypeError
\* for a value that has no __int__.
PyInt(value) ==
    CASE IsInt(value) -> Ok(IntV(value.n))
      [] value.t = "Decimal" -> Ok(IntV(TruncDiv(value.n, Pow10(value.e))))
      [] value.t = "String" ->
            IF IsDigits(Unsigned(value.s))
            THEN Ok(IntV(SignOf(value.s) * DigitsValue(Unsigned(value.s))))
            ELSE Raise("ValueError")
      [] OTHER -> Raise("TypeError")

\* The position of the decimal point in s, 0 when there is none
PointAt(s) == IF \E i \in 1..Len(s) : s[i] = 46
              THEN CHOOSE i \in 1..Len(s) : s[i] = 46 /\ \A j \in 1..(i - 1) : s[j] # 46
              ELSE 0

\* Decimal(text): a signed numeral with an optional fraction keeps its digits
\* and its scale; any other text raises decimal.InvalidOperation.
PyDecimal(text) ==
    LET u == Unsigned(text)
        p == PointAt(u)
        whole == IF p = 0 THEN u ELSE SubSeq(u, 1, p - 1)
        frac == IF p = 0 THEN <<>> ELSE SubSeq(u, p + 1, Len(u))
    IN  IF IsDigits(whole \o frac)
        THEN Ok(DecV(SignOf(text) * DigitsValue(whole \o frac), Len(frac)))
        ELSE Raise("InvalidOperation")

\* The texts that a cast to Boolean reads as true
TrueTexts == {<<116, 114, 117, 101>>, <<116>>, <<121, 101, 115>>, <<121>>, <<49>>}

\* _cast_type: the except clauses catch ValueError and TypeError only
_cast_type(value, type_name) ==
    LET type_lower == Lower(type_name)
        caught(r) == IF r.err \in {"ValueError", "TypeError"} THEN Ok(Null) ELSE r
    IN  IF IsNull(value) THEN Ok(Null)
        ELSE IF TypeNamed(type_lower, Lower(Text_String)) THEN Ok(StrV(StrOf(value)))
        ELSE IF TypeNamed(type_lower, Lower(Text_Integer)) THEN caught(PyInt(value))
        ELSE IF TypeNamed(type_lower, Lower(Text_Decimal))
        THEN caught(PyDecimal(StrOf(value)))
        ELSE IF TypeNamed(type_lower, Lower(Text_Boolean))
        THEN IF value.t = "Boolean" THEN Ok(value)
             ELSE IF value.t = "String" THEN Ok(BoolV(Lower(value.s) \in TrueTexts))
             ELSE Ok(Null)
        ELSE Ok(value)

TypeOps == {"is", "as"}

\* visitTypeExpression
TypeExpression(op, value, type_name) ==
    IF op = "is" THEN Ok(_check_type(value, type_name))
    ELSE IF op = "as" THEN _cast_type(value, type_name)
    ELSE Ok(value)

(***************************************************************************)
(* Intervals and the timing expressions.                                   *)
(***************************************************************************)
\* CQLInterval(low, high, low_closed, high_closed): an unbounded side is Null;
\* the bounds of the intervals modelled are numbers, which always compare.
IntervalV(low, high, low_closed, high_closed) ==
    [t |-> "Interval", n |-> IF low_closed THEN 1 ELSE 0, e |-> IF high_closed THEN 1 ELSE 0,
     s |-> <<>>, key |-> "", items |-> <<low, high>>]

IsInterval(v) == v.t = "Interval"

\* CQLInterval.__contains__(value)
InInterval(value, self) ==
    LET low == self.items[1]
        high == self.items[2]
    IN  /\ ~IsNull(value)
        /\ IsNull(low) \/ IF self.n = 1 THEN ~NumLt(value, low) ELSE NumLt(low, value)
        /\ IsNull(high) \/ IF self.e = 1 THEN ~NumLt(high, value) ELSE NumLt(value, high)

\* CQLInterval.includes(other)
includes(self, other) ==
    LET outside(bound) == ~IsNull(bound) /\ ~InInterval(bound, self)
        low == other.items[1]
        high == other.items[2]
    IN  /\ (outside(low) /\ ~IsNull(self.items[1])) =>
              /\ ~NumLt(low, self.items[1])
              /\ ~(NumEq(low, self.items[1]) /\ self.n = 0 /\ other.n = 1)
        /\ (outside(high) /\ ~IsNull(self.items[2])) =>
              /\ ~NumLt(self.items[2], high)
              /\ ~(NumEq(high, self.items[2]) /\ self.e = 0 /\ other.e = 1)

\* overlaps with `<=` for `<`: intervals that touch do not overlap
overlaps_apart(self, other) ==
    /\ (~IsNull(self.items[2]) /\ ~IsNull(other.items[1])) =>
          NumLt(other.items[1], self.items[2])
    /\ (~IsNull(other.items[2]) /\ ~IsNull(self.items[1])) =>
          NumLt(self.items[1], other.items[2])

\* CQLInterval.overlaps(other)
overlaps(self, other) ==
    /\ (~IsNull(self.items[2]) /\ ~IsNull(other.items[1])) =>
          /\ ~NumLt(self.items[2], other.items[1])
          /\ NumEq(self.items[2], other.items[1]) => (self.e = 1 /\ other.n = 1)
    /\ (~IsNull(other.items[2]) /\ ~IsNull(self.items[1])) =>
          /\ ~NumLt(other.items[2], self.items[1])
          /\ NumEq(other.items[2], self.items[1]) => (other.e = 1 /\ self.n = 1)

\* CQLInterval.meets(other)
meets(self, other) ==
    /\ ~IsNull(self.items[2])
    /\ ~IsNull(other.items[1])
    /\ NumEq(self.items[2], other.items[1])
    /\ self.e # other.n

\* The words the timing methods look for in the operator text
Word(word) ==
    CASE word = "before" -> <<98, 101, 102, 111, 114, 101>>
      [] word = "after" -> <<97, 102, 116, 101, 114>>
      [] word = "meets" -> <<109, 101, 101, 116, 115>>
      [] word = "overlaps" -> <<111, 118, 101, 114, 108, 97, 112, 115>>
      [] word = "starts" -> <<115, 116, 97, 114, 116, 115>>
      [] word = "ends" -> <<101, 110, 100, 115>>
      [] word = "during" -> <<100, 117, 114, 105, 110, 103>>
      [] word = "included in" -> <<105, 110, 99, 108, 117, 100, 101, 100, 32, 105, 110>>
      [] word = "includes" -> <<105, 110, 99, 108, 117, 100, 101, 115>>
      [] word = "same" -> <<115, 97, 109, 101>>
      [] word = "contains" -> <<99, 111, 110, 116, 97, 105, 110, 115>>
      [] word = "in" -> <<105, 110>>

\* The operator texts of the timing expressions evaluated
TimingText(op) ==
    CASE op = "before" -> <<98, 101, 102, 111, 114, 101>>
      [] op = "after" -> <<97, 102, 116, 101, 114>>
      [] op = "meets" -> <<109, 101, 101, 116, 115>>
      [] op = "meets before" -> <<109, 101, 101, 116, 115, 32, 98, 101, 102, 111, 114, 101>>
      [] op = "meets after" -> <<109, 101, 101, 116, 115, 32, 97, 102, 116, 101, 114>>
      [] op = "overlaps" -> <<111, 118, 101, 114, 108, 97, 112, 115>>
      [] op = "overlaps before" -> <<111, 118, 101, 114, 108, 97, 112, 115, 32, 98, 101, 102, 111, 114, 101>>
      [] op = "overlaps after" -> <<111, 118, 101, 114, 108, 97, 112, 115, 32, 97, 102, 116, 101, 114>>
      [] op = "starts" -> <<115, 116, 97, 114, 116, 115>>
      [] op = "ends" -> <<101, 110, 100, 115>>
      [] op = "during" -> <<100, 117, 114, 105, 110, 103>>
      [] op = "includes" -> <<105, 110, 99, 108, 117, 100, 101, 115>>
      [] op = "same as" -> <<115, 97, 109, 101, 32, 97, 115>>

\* `word in op`
Mentions(op, word) == Contains(op, Word(word))

\* low == high on two bounds, None == None included
SameBound(a, b) == IF IsNull(a) \/ IsNull(b) THEN IsNull(a) /\ IsNull(b) ELSE NumEq(a, b)

\* _interval_timing(left, right, op): the first branch whose word the
\* operator text holds decides
_interval_timing(left, right, op) ==
    LET llow == left.items[1]
        lhigh == left.items[2]
        rlow == right.items[1]
        rhigh == right.items[2]
    IN  CASE Mentions(op, "before") ->
                IF IsNull(lhigh) \/ IsNull(rlow) THEN Null ELSE BoolV(NumLt(lhigh, rlow))
          [] ~Mentions(op, "before") /\ Mentions(op, "after") ->
                IF IsNull(llow) \/ IsNull(rhigh) THEN Null ELSE BoolV(NumLt(rhigh, llow))
          [] OTHER ->
                CASE Mentions(op, "meets") ->
                        IF Mentions(op, "before") THEN BoolV(SameBound(lhigh, rlow))
                        ELSE IF Mentions(op, "after") THEN BoolV(SameBound(llow, rhigh))
                        ELSE BoolV(SameBound(lhigh, rlow) \/ SameBound(llow, rhigh))
                  [] OTHER ->
                        IF Mentions(op, "overlaps") THEN BoolV(overlaps(left, right))
                        ELSE IF Mentions(op, "starts") THEN BoolV(SameBound(llow, rlow))
                        ELSE IF Mentions(op, "ends") THEN BoolV(SameBound(lhigh, rhigh))
                        ELSE IF Mentions(op, "during") \/ Mentions(op, "included in")
                        THEN BoolV(includes(right, left))
                        ELSE IF Mentions(op, "includes") THEN BoolV(includes(left, right))
                        ELSE IF Mentions(op, "same") THEN BoolV(PyEq(left, right))
                        ELSE Null

\* _interval_point_timing(interval, point, op)
_interval_point_timing(interval, point, op) ==
    IF Mentions(op, "before")
    THEN BoolV(~IsNull(interval.items[2]) /\ NumLt(interval.items[2], point))
    ELSE IF Mentions(op, "after")
    THEN BoolV(~IsNull(interval.items[1]) /\ NumLt(point, interval.items[1]))
    ELSE IF Mentions(op, "contains") \/ Mentions(op, "includes")
    THEN BoolV(InInterval(point, interval))
    ELSE Null

\* _point_interval_timing(point, interval, op)
_point_interval_timing(point, interval, op) ==
    IF Mentions(op, "before")
    THEN BoolV(~IsNull(interval.items[1]) /\ NumLt(point, interval.items[1]))
    ELSE IF Mentions(op, "after")
    THEN BoolV(~IsNull(interval.items[2]) /\ NumLt(interval.items[2], point))
    ELSE IF Mentions(op, "during") \/ Mentions(op, "in") \/ Mentions(op, "included in")
    THEN BoolV(InInterval(point, interval))
    ELSE Null

\* visitTimingExpression, once both operands are evaluated (points are
\* numbers)
TimingExpression(op, left, right) ==
    IF IsNull(left) \/ IsNull(right) THEN Ok(Null)
    ELSE IF IsInterval(left) /\ IsInterval(right)
    THEN Ok(_interval_timing(left, right, TimingText(op)))
    ELSE IF IsInterval(left) THEN Ok(_interval_point_timing(left, right, TimingText(op)))
    ELSE IF IsInterval(right) THEN Ok(_point_interval_timing(left, right, TimingText(op)))
    ELSE IF Mentions(TimingText(op), "before") THEN Ok(BoolV(NumLt(left, right)))
    ELSE IF Mentions(TimingText(op), "after") THEN Ok(BoolV(NumLt(right, left)))
    ELSE Ok(Null)

(***************************************************************************)
(* Collapse, as the specification describes it: the list is sorted by low  *)
(* bound and an interval that overlaps the last interval kept, or starts   *)
(* right after it ends, is united with it.                                 *)
(***************************************************************************)
\* The interval from the low bound of a to the larger of the two high bounds
UnionOf(a, b) ==
    IntervalV(a.items[1],
              IF NumLt(a.items[2], b.items[2]) THEN b.items[2] ELSE a.items[2],
              TRUE, TRUE)

\* b starts right after a ends: successor(a.high) = b.low
StartsRightAfter(a, b) == b.items[1].n = a.items[2].n + 1

RECURSIVE Merged(_)
Merged(sorted) ==
    IF Len(sorted) <= 1 THEN sorted
    ELSE LET front == Merged(SubSeq(sorted, 1, Len(sorted) - 1))
             kept == front[Len(front)]
             next == sorted[Len(sorted)]
         IN  IF overlaps(kept, next) \/ StartsRightAfter(kept, next)
             THEN SubSeq(front, 1, Len(front) - 1) \o <<UnionOf(kept, next)>>
             ELSE Append(front, next)

\* collapse of a list of closed Integer intervals, each with low <= high
Collapse(intervals) ==
    Merged(SortedBy(intervals, [i \in 1..Len(intervals) |-> intervals[i].items[1]],
                    FALSE, FALSE))

(***************************************************************************)
(* The set operators.                                                      *)
(***************************************************************************)
\* A non-list operand becomes [operand], None becomes []
AsList(v) == IF v.t = "List" THEN v.items ELSE IF IsNull(v) THEN <<>> ELSE <<v>>

\* for item in right: if item not in result: result.append(item)
RECURSIVE AppendNew(_, _)
AppendNew(result, right) ==
    IF right = <<>> THEN result
    ELSE AppendNew(IF InList(Head(right), result) THEN result
                   ELSE Append(result, Head(right)),
                   Tail(right))

\* visitInFixSetExpression, once both operands are evaluated
InFixSetExpression(op, left, right) ==
    LET l == AsList(left)
        r == AsList(right)
        inRight(item) == InList(item, r)
        notInRight(item) == ~InList(item, r)
    IN  CASE op = "union" -> Ok(ListV(AppendNew(l, r)))
          [] op = "intersect" -> Ok(ListV(SelectSeq(l, inRight)))
          [] op = "except" -> Ok(ListV(SelectSeq(l, notInRight)))
          [] OTHER -> Ok(ListV(l))

(***************************************************************************)
(* The binary operators on their own: two evaluated operands reach the     *)
(* visit method of an operator, which computes the expression's outcome.   *)
(***************************************************************************)
OpValues ==
    { Null, True, False,
      IntV(0), IntV(1), IntV(-3),
      DecV(0, 1), DecV(15, 1),
      StrV(<<>>), StrV(ChA), StrV(<<49>>),
      QtyV(0, 0, Mg), QtyV(5, 0, Mg), QtyV(5, 0, Gram),
      ListV(<<>>), ListV(<<IntV(1)>>) }

NotApplied == [err |-> "not applied", val |-> Null]

\* No library and no root call
EvalIdle ==
    /\ tree = <<>>
    /\ pos = 0
    /\ library = NewLibrary
    /\ pc = "compile"
    /\ calls = 0
    /\ root = [name |-> "", resource |-> ""]
    /\ context = NoContext
    /\ definition_cache = EmptyMap
    /\ evaluating = {}
    /\ control = Stopped
    /\ stack = <<>>
    /\ outcome = NoOutcome
    /\ visits = ZeroCount
    /\ completed = ZeroCount
    /\ retrieves = 0

\* The aggregate built-ins
AggregateNames ==
    { "Count", "Sum", "Avg", "Min", "Max", "Median", "Mode", "Variance",
      "PopulationVariance", "StdDev", "PopulationStdDev", "Product", "GeometricMean" }

\* The built-in functions called on their own
BuiltinNames == {"Singleton", "singletonFrom"} \cup AggregateNames

\* The lists they are called on, of at most two numbers: {}, {null},
\* {null, null}, {4}, {null, 4}, {1, 3}, {1, null, 3}, {3, null, 1},
\* {2, 2, null}, {1, 2}, {1, 1}, {1.5, 2.5}, {null, 1.5}, {2, 1.0}, {0, 4},
\* {-1, 4}, {'a', 1, 'a'}, {true, null}
BuiltinArguments ==
    { ListV(<<>>), ListV(<<Null>>), ListV(<<Null, Null>>), ListV(<<IntV(4)>>),
      ListV(<<Null, IntV(4)>>), ListV(<<IntV(1), IntV(3)>>),
      ListV(<<IntV(1), Null, IntV(3)>>), ListV(<<IntV(3), Null, IntV(1)>>),
      ListV(<<IntV(2), IntV(2), Null>>), ListV(<<IntV(1), IntV(2)>>),
      ListV(<<IntV(1), IntV(1)>>), ListV(<<DecV(15, 1), DecV(25, 1)>>),
      ListV(<<Null, DecV(15, 1)>>), ListV(<<IntV(2), DecV(10, 1)>>),
      ListV(<<IntV(0), IntV(4)>>), ListV(<<IntV(-1), IntV(4)>>),
      ListV(<<StrV(ChA), IntV(1), StrV(ChA)>>), ListV(<<True, Null>>) }

\* The timing operators
TimingOps ==
    { "before", "after", "meets", "meets before", "meets after", "overlaps",
      "overlaps before", "overlaps after", "starts", "ends", "during", "includes",
      "same as" }

\* The bounds of the intervals
MaxBound == 3

Bounds == {IntV(i) : i \in 1..MaxBound}

\* Interval[low, high], Interval(low, high], ... with each side a bound or
\* Null, the low bound above the high one included
Intervals ==
    { IntervalV(low, high, low_closed, high_closed) :
        low \in Bounds \cup {Null}, high \in Bounds \cup {Null},
        low_closed \in BOOLEAN, high_closed \in BOOLEAN }

\* The operands of a timing expression: intervals, points and Null
TimingOperands == Intervals \cup Bounds \cup {Null}

\* The longest list that is collapsed
MaxCollapsed == 3

\* Interval[low, high] for the bounds with low <= high
ClosedIntervals ==
    { IntervalV(IntV(bounds[1]), IntV(bounds[2]), TRUE, TRUE) :
        bounds \in {b \in (1..MaxBound) \X (1..MaxBound) : b[1] <= b[2]} }

RECURSIVE ListsOf(_, _)
ListsOf(values, n) ==
    IF n = 0 THEN {<<>>}
    ELSE ListsOf(values, n - 1)
           \cup {Append(items, v) : items \in ListsOf(values, n - 1), v \in values}

\* The lists of closed Integer intervals that are collapsed
CollapseArguments == {ListV(items) : items \in ListsOf(ClosedIntervals, MaxCollapsed)}

\* The set operators
SetOps == {"union", "intersect", "except"}

\* Their operands: null, 1, {}, {1}, {1, 1}, {1, 2}, {2, 1}, {1, 2, 1},
\* {1.0, 1}, {null, null}, {'a', 1}, { Interval[1, 2] },
\* { Interval[1, 2], Interval[1, 2) }
SetOperands ==
    { Null, IntV(1), ListV(<<>>), ListV(<<IntV(1)>>), ListV(<<IntV(1), IntV(1)>>),
      ListV(<<IntV(1), IntV(2)>>), ListV(<<IntV(2), IntV(1)>>),
      ListV(<<IntV(1), IntV(2), IntV(1)>>), ListV(<<DecV(10, 1), IntV(1)>>),
      ListV(<<Null, Null>>), ListV(<<StrV(ChA), IntV(1)>>),
      ListV(<<IntervalV(IntV(1), IntV(2), TRUE, TRUE)>>),
      ListV(<<IntervalV(IntV(1), IntV(2), TRUE, TRUE),
              IntervalV(IntV(1), IntV(2), TRUE, FALSE)>>) }

OpInit ==
    /\ EvalIdle
    /\ \/ opName \in BinaryOps /\ opLeft \in OpValues /\ opRight \in OpValues
       \/ /\ opName \in TypeOps
          /\ opLeft \in OpValues
          /\ opRight \in {StrV(type_name) : type_name \in TypeNames}
       \/ opName \in BuiltinNames /\ opLeft \in BuiltinArguments /\ opRight = Null
       \/ opName \in TimingOps /\ opLeft \in TimingOperands /\ opRight \in TimingOperands
       \/ opName = "collapse" /\ opLeft \in CollapseArguments /\ opRight = Null
       \/ opName \in SetOps /\ opLeft \in SetOperands /\ opRight \in SetOperands
    /\ opResult = NotApplied

\* The visit method of the operator, once both operands are evaluated
visitBinaryOperator ==
    /\ opResult = NotApplied
    /\ opName \in BinaryOps
    /\ opResult' = BinaryExpression(opName, opLeft, opRight)
    /\ UNCHANGED <<evalVars, opName, opLeft, opRight>>

\* visitTypeExpression, once the operand is evaluated: opRight holds the text
\* of the type specifier
visitTypeExpression ==
    /\ opResult = NotApplied
    /\ opName \in TypeOps
    /\ opResult' = TypeExpression(opName, opLeft, opRight.s)
    /\ UNCHANGED <<evalVars, opName, opLeft, opRight>>

\* _call_builtin_function(name, [opLeft]): the call of a function the library
\* does not define, once its argument is evaluated
callBuiltinFunction ==
    /\ opResult = NotApplied
    /\ opName \in BuiltinNames
    /\ opResult' = _call_builtin_function(opName, <<opLeft>>)
    /\ UNCHANGED <<evalVars, opName, opLeft, opRight>>

\* visitTimingExpression, once both operands are evaluated
visitTimingExpression ==
    /\ opResult = NotApplied
    /\ opName \in TimingOps
    /\ opResult' = TimingExpression(opName, opLeft, opRight)
    /\ UNCHANGED <<evalVars, opName, opLeft, opRight>>

\* collapse, once its argument is evaluated
collapse ==
    /\ opResult = NotApplied
    /\ opName = "collapse"
    /\ opResult' = Ok(ListV(Collapse(opLeft.items)))
    /\ UNCHANGED <<evalVars, opName, opLeft, opRight>>

\* visitInFixSetExpression, once both operands are evaluated
visitInFixSetExpression ==
    /\ opResult = NotApplied
    /\ opName \in SetOps
    /\ opResult' = InFixSetExpression(opName, opLeft, opRight)
    /\ UNCHANGED <<evalVars, opName, opLeft, opRight>>

OpNext ==
    \/ visitBinaryOperator
    \/ visitTypeExpression
    \/ callBuiltinFunction
    \/ visitTimingExpression
    \/ collapse
    \/ visitInFixSetExpression

SpecOps == OpInit /\ [][OpNext]_vars

(***************************************************************************)
(* The libraries of the query specification: identifier resolution,        *)
(* function dispatch and the clauses of a query, each on its own inputs.   *)
(***************************************************************************)
\* The declarations of the name X: parameter X default 1, define X: 2,
\* code X: 'c', concept X: { 'c' }
ParameterX == Parameter("X", IntV(1))

DefineX == Define("X", Lit(IntV(2)))

CodeX == CodeStmt("X", CodeV(<<99>>))

ConceptX == ConceptStmt("X", ConceptV(<<CodeV(<<99>>)>>))

Optional(b, st) == IF b THEN <<st>> ELSE <<>>

\* define R: X
DefineR == Define("R", Ref("X"))

\* define W: ({5}) X return X
DefineW ==
    Define("W", Query(Sources(<<AliasedSource("X", ListSel(<<Lit(IntV(5))>>))>>),
                      Absent, Absent, Return(Ref("X"), Text_return(<<88>>)), Absent))

\* X Y return Y
QueryOfX ==
    Query(Sources(<<AliasedSource("Y", QualId("X"))>>), Absent, Absent,
          Return(Ref("Y"), Text_return(<<89>>)), Absent)

\* define S: X Y return Y
DefineS == Define("S", QueryOfX)

\* define T: ({7}) X return (X Y return Y)
DefineT ==
    Define("T", Query(Sources(<<AliasedSource("X", ListSel(<<Lit(IntV(7))>>))>>),
                      Absent, Absent,
                      Return(QueryOfX, Text_return(<<40, 88, 89, 114, 101, 116, 117,
                                                      114, 110, 89, 41>>)),
                      Absent))

ResolutionLibraries ==
    { <<ContextStmt("Patient")>> \o Optional(p, ParameterX) \o Optional(d, DefineX)
        \o Optional(c, CodeX) \o Optional(k, ConceptX)
        \o <<DefineR, DefineW, DefineS, DefineT>> :
        p \in BOOLEAN, d \in BOOLEAN, c \in BOOLEAN, k \in BOOLEAN }

\* define function Count(x): 'a'  or  define function Count(x): x < 'a'
CountBodies == {Lit(StrV(ChA)), Bin("<", Ref("x"), Lit(StrV(ChA)))}

\* define function Nope(x, y): 'b'
FunctionNope == Function("Nope", <<"x", "y">>, Lit(StrV(ChB)))

\* define U: Count({1, 2})
DefineU == Define("U", Call("Count", <<ListSel(<<Lit(IntV(1)), Lit(IntV(2))>>)>>))

\* define V: Count({1}, 2)
DefineV == Define("V", Call("Count", <<ListSel(<<Lit(IntV(1))>>), Lit(IntV(2))>>))

\* define Z: Nope(1)
DefineZ == Define("Z", Call("Nope", <<Lit(IntV(1))>>))

DispatchLibraries ==
    { <<ContextStmt("Patient")>> \o count \o Optional(nope, FunctionNope)
        \o <<DefineU, DefineV, DefineZ>> :
        count \in {<<>>} \cup {<<Function("Count", <<"x">>, body)>> : body \in CountBodies},
        nope \in BOOLEAN }

\* The sources joined by J: {}, null, 3, {1, 2}, [Condition]
JoinSources ==
    { ListSel(<<>>), Lit(Null), Lit(IntV(3)), ListSel(<<Lit(IntV(1)), Lit(IntV(2))>>),
      Retrieve("Condition") }

\* define J: (s1) N, (s2) M, ({4, 5}) L
DefineJ(s1, s2) ==
    Define("J", Query(Sources(<<AliasedSource("N", s1), AliasedSource("M", s2),
                                AliasedSource("L", ListSel(<<Lit(IntV(4)),
                                                             Lit(IntV(5))>>))>>),
                      Absent, Absent, Absent, Absent))

JoinLibraries ==
    { <<ContextStmt("Patient"), DefineJ(s1, s2)>> : s1 \in JoinSources, s2 \in JoinSources }

\* The list selector (or literal) that evaluates to v
RECURSIVE Selector(_)
Selector(v) ==
    IF v.t = "List" THEN ListSel([i \in 1..Len(v.items) |-> Selector(v.items[i])])
    ELSE Lit(v)

\* { {true, 1}, {1, 2}, {false, 3}, {null, 4}, {true, 5}, {'a', 6} }
WhereItems ==
    << ListV(<<True, IntV(1)>>), ListV(<<IntV(1), IntV(2)>>), ListV(<<False, IntV(3)>>),
       ListV(<<Null, IntV(4)>>), ListV(<<True, IntV(5)>>), ListV(<<StrV(ChA), IntV(6)>>) >>

\* The predicates of K: F, First(N), F < 'a'
WherePredicates ==
    { Ref("F"), Call("First", <<Ref("N")>>), Bin("<", Ref("F"), Lit(StrV(ChA))) }

\* define K: (WhereItems) N let F: First(N) where predicate
DefineK(predicate) ==
    Define("K", Query(Sources(<<AliasedSource("N", Selector(ListV(WhereItems)))>>),
                      Lets(<<LetItem("F", Call("First", <<Ref("N")>>))>>),
                      Where(predicate), Absent, Absent))

WhereLibraries ==
    { <<ContextStmt("Patient"), DefineK(predicate)>> : predicate \in WherePredicates }

\* The text of a return clause of N, as getText() gives it: the tokens, joined
\* without the whitespace between them or, should the parser keep it, with it.
ReturnTexts == {Text_return(<<78>>), Text_return(<<32, 78>>)}

ReturnAllTexts == {Text_return(<<97, 108, 108, 78>>), Text_return(<<32, 97, 108, 108, 32, 78>>)}

ReturnDistinctTexts ==
    {Text_return(<<100, 105, 115, 116, 105, 110, 99, 116, 78>>), Text_return(<<32, 100, 105, 115, 116, 105, 110, 99, 116, 32, 78>>)}

\* {1, 1, 2, 1}
ReturnItems == <<IntV(1), IntV(1), IntV(2), IntV(1)>>

\* define G: (ReturnItems) N return N, with the modifier that text holds
DefineG(text) ==
    Define("G", Query(Sources(<<AliasedSource("N", Selector(ListV(ReturnItems)))>>),
                      Absent, Absent, Return(Ref("N"), text), Absent))

ReturnLibraries ==
    { <<ContextStmt("Patient"), DefineG(text)>> :
        text \in ReturnTexts \cup ReturnAllTexts \cup ReturnDistinctTexts }

\* define I: ({1, 2, 3}) N where N > bound
DefineI(bound) ==
    Define("I", Query(Sources(<<AliasedSource("N", Selector(ListV(<<IntV(1), IntV(2),
                                                                  IntV(3)>>)))>>),
                      Absent, Where(Bin(">", Ref("N"), Lit(bound))), Absent, Absent))

\* define H: First(I)
DefineH == Define("H", Call("First", <<Ref("I")>>))

\* The bounds of I: 1, 3, and 'a', which no Integer can be compared with
ImplicitReturnLibraries ==
    { <<ContextStmt("Patient"), DefineI(bound), DefineH>> :
        bound \in {IntV(1), IntV(3), StrV(ChA)} }

\* The lists that are sorted: {2, null, 1, null, 3}, {2, 1}, {null},
\* {2, 'a', null}
SortItems ==
    { <<IntV(2), Null, IntV(1), Null, IntV(3)>>, <<IntV(2), IntV(1)>>, <<Null>>,
      <<IntV(2), StrV(ChA), Null>> }

\* (items) N return all N sort asc / sort desc
SortedQuery(items, dir) ==
    Query(Sources(<<AliasedSource("N", Selector(ListV(items)))>>), Absent, Absent,
          Return(Ref("N"), Text_return(<<97, 108, 108, 78>>)), SortDir(dir))

\* define SA: ... sort asc, define SD: ... sort desc, define SF: Sort(items)
SortLibraries ==
    { <<ContextStmt("Patient"), Define("SA", SortedQuery(items, "asc")),
        Define("SD", SortedQuery(items, "desc")),
        Define("SF", Call("Sort", <<Selector(ListV(items))>>))>> : items \in SortItems }

\* { {1, 9}, {0, 5, 'a'}, {1, 7}, {1, 8, 8}, {0} }
KeyedItems ==
    << ListV(<<IntV(1), IntV(9)>>), ListV(<<IntV(0), IntV(5), StrV(ChA)>>),
       ListV(<<IntV(1), IntV(7)>>), ListV(<<IntV(1), IntV(8), IntV(8)>>),
       ListV(<<IntV(0)>>) >>

\* The sort keys of M: First("$this"), Count("$this"), Last("$this"), whose
\* values are Integers and a String, and "$this" < 'a', which raises TypeError
SortKeys ==
    { Call("First", <<Ref("$this")>>), Call("Count", <<Ref("$this")>>),
      Call("Last", <<Ref("$this")>>), Bin("<", Ref("$this"), Lit(StrV(ChA))) }

\* define M: (KeyedItems) N return all N sort by key1 dir1, key2 dir2
DefineM(key1, dir1, key2, dir2) ==
    Define("M", Query(Sources(<<AliasedSource("N", Selector(ListV(KeyedItems)))>>),
                      Absent, Absent,
                      Return(Ref("N"), Text_return(<<97, 108, 108, 78>>)),
                      SortBy(<<SortByItem(dir1, key1), SortByItem(dir2, key2)>>)))

KeyedSortLibraries ==
    { <<ContextStmt("Patient"), DefineM(key1, dir1, key2, dir2)>> :
        key1 \in SortKeys, dir1 \in {"asc", "desc"},
        key2 \in SortKeys, dir2 \in {"asc", "desc"} }

\* The statements of the libraries with several context statements:
\* context Patient, context Unfiltered, define A: 1, define B: null
ContextStatements ==
    { ContextStmt("Patient"), ContextStmt("Unfiltered"),
      Define("A", Lit(IntV(1))), Define("B", Lit(Null)) }

MaxStatements == 4

\* Context statements before, between and after the definitions, repeated or not
ContextLibraries == ListsOf(ContextStatements, MaxStatements) \ {<<>>}

\* define B: ({1, 2}) N return A
DefineB_returns ==
    Define("B", Query(Sources(<<AliasedSource("N", ListSel(<<Lit(IntV(1)), Lit(IntV(2))>>))>>),
                      Absent, Absent, Return(Ref("A"), Text_return(<<65>>)), Absent))

\* define C: ({1}) M let L: 5 return A
DefineC_lets ==
    Define("C", Query(Sources(<<AliasedSource("M", ListSel(<<Lit(IntV(1))>>))>>),
                      Lets(<<LetItem("L", Lit(IntV(5)))>>), Absent,
                      Return(Ref("A"), Text_return(<<65>>)), Absent))

\* define D: F(7)   with   define function F(N): A
DefineD_calls == Define("D", Call("F", <<Lit(IntV(7))>>))

FunctionF_ofN == Function("F", <<"N">>, Ref("A"))

\* The bodies of A: N, L, 3 (the library declares neither N nor L)
ScopeBodies == {Ref("N"), Ref("L"), Lit(IntV(3))}

\* A definition referenced from a return clause, from a query with a let
\* binding and from the body of a function
ScopeLibraries ==
    { <<ContextStmt("Patient"), Define("A", body), DefineB_returns, DefineC_lets,
        DefineD_calls, FunctionF_ofN>> : body \in ScopeBodies }

QueryLibraries ==
    ContextLibraries \cup ScopeLibraries \cup ResolutionLibraries \cup DispatchLibraries \cup JoinLibraries \cup WhereLibraries
        \cup ReturnLibraries \cup ImplicitReturnLibraries \cup SortLibraries
        \cup KeyedSortLibraries

QueryInit ==
    /\ tree \in QueryLibraries
    /\ pos = 0
    /\ library = NewLibrary
    /\ pc = "compile"
    /\ calls = 0
    /\ root = [name |-> "", resource |-> ""]
    /\ context = NoContext
    /\ definition_cache = EmptyMap
    /\ evaluating = {}
    /\ control = Stopped
    /\ stack = <<>>
    /\ outcome = NoOutcome
    /\ visits = ZeroCount
    /\ completed = ZeroCount
    /\ retrieves = 0

InitQueries == QueryInit /\ OpIdle

SpecQueries == InitQueries /\ [][Next]_vars

(***************************************************************************)
(* Properties.                                                             *)
(***************************************************************************)
RecursiveDefinition == "CQLError: Recursive definition detected"

SingletonCardinality == "CQLError: Expected single element but found multiple"

\* The expression tree the compiled library holds for definition d
TreeOf(d) ==
    IF d \in DOMAIN library.definitions THEN library.definitions[d].expression_tree
    ELSE NoNode

\* The definition that d's tree is a bare reference to, if it is one
RefTarget(d) == IF TreeOf(d).k = "memberInvocation" THEN TreeOf(d).name ELSE ""

\* A root call has just computed its value
RootReturns == pc = "eval" /\ stack = <<>> /\ control.mode = "return"

\* A root call has ended
RootEnded == pc = "idle" /\ calls > 0

\* C1: within one root call, once a definition's evaluation has completed its
\* tree is not visited again and its evaluation does not complete a second
\* time, whatever refers to it afterwards; the data source is asked at most
\* once per definition that is a retrieve.
C1_DefinitionEvaluatedOnce ==
    [][/\ \A d \in DefinedNames :
             (completed[d] >= 1 /\ calls' = calls)
                => (visits'[d] = visits[d] /\ completed'[d] = completed[d])
       /\ retrieves' <= Cardinality({d \in DefinedNames : TreeOf(d) = Retrieve("Condition")})
      ]_vars

\* B is `A = A` and A is Null: the second reference to A has returned the
\* cached Null, A's tree having been visited once.
C1_Witness ==
    /\ Returning("binary")
    /\ Top(stack).node = Bin("=", Ref("A"), Ref("A"))
    /\ Top(stack).vals = <<Null>>
    /\ control.val = Null
    /\ TreeOf("A") = Lit(Null)
    /\ visits["A"] = 1
    /\ completed["A"] = 1

\* C2: a root call on a definition that refers to itself, directly or through
\* a cycle of references, ends with the recursive-definition error and no value.
C2_CycleRaisesRecursionError ==
    (/\ RootEnded
     /\ \/ RefTarget(outcome.name) = outcome.name
        \/ /\ RefTarget(outcome.name) \in DefNames
           /\ RefTarget(RefTarget(outcome.name)) = outcome.name)
        => outcome.err = RecursiveDefinition

\* A is B, B is A, and the root call on A has ended with the error.
C2_Witness ==
    /\ RootEnded
    /\ outcome.name = "A"
    /\ RefTarget("A") = "B"
    /\ RefTarget("B") = "A"
    /\ outcome.err = RecursiveDefinition

C4_OnlyRecursionAndSingletonRaise ==
    RootEnded => outcome.err \in {"", RecursiveDefinition, SingletonCardinality}

\* The definitions whose evaluation is on the call stack
OnCallStack == {stack[i].name : i \in {j \in DOMAIN stack : stack[j].k = "definition"}}

\* C5: the in-progress set holds exactly the definitions whose evaluation is
\* on the call stack, so it is empty once a root call has ended, and a
\* definition that failed is not in it when it is referenced again.
C5_InProgressOnlyWhileOnStack ==
    /\ evaluating = OnCallStack
    /\ RootEnded => evaluating = {}

\* C failed as a sort key, was evaluated again for the next sort item and
\* failed with its own error again, not as a recursive definition.
C5_Witness ==
    /\ Raising("query")
    /\ control.err = "TypeError"
    /\ visits["C"] = 2
    /\ "C" \notin evaluating

\* The scopes the context holds for a stack of waiting methods: the base
\* scope of the root context, or of the innermost function call's context,
\* and one scope per row step under way in it.
RECURSIVE ScopeDepth(_)
ScopeDepth(stk) ==
    IF stk = <<>> THEN 1
    ELSE IF Top(stk).k = "userFunction" THEN 1
    ELSE IF Top(stk).k = "query" /\ Top(stk).stage # "source" THEN 1 + ScopeDepth(Pop(stk))
    ELSE ScopeDepth(Pop(stk))

\* C6: the scope stack holds the base scope and one scope per row step under
\* way, neither more nor less, also while an error passes; the context a
\* function call will restore is the caller's; when the root call has ended,
\* with a value or an error, the context is the one it started with.
C6_ScopesReleased ==
    /\ pc = "eval" =>
         /\ Len(context.scopes) = ScopeDepth(stack)
         /\ context.resource = root.resource
         /\ \A i \in DOMAIN stack :
               stack[i].k = "userFunction" =>
                  /\ Len(stack[i].saved.scopes) = ScopeDepth(SubSeq(stack, 1, i - 1))
                  /\ stack[i].saved.resource = root.resource
    /\ RootEnded => context = NewContext(root.resource, library.parameters)

\* An error raised in a row step of the query D has left the root call.
C6_Witness ==
    /\ RootEnded
    /\ outcome.name = "D"
    /\ outcome.err = "TypeError"
    /\ context = NewContext(root.resource, library.parameters)

\* C7: once compiled, the library does not change.
C7_LibraryReadOnly == [][pc # "compile" => library' = library]_vars

\* The query D, with a retrieve and a call of F in it, has been evaluated in
\* the second root call.
C7_Witness ==
    /\ RootEnded
    /\ calls = 2
    /\ outcome.name = "D"
    /\ outcome.err = ""
    /\ retrieves >= 1
    /\ TreeOf("C") = Call("F", <<Ref("B")>>)
    /\ visits["C"] = 1

NullPropagatingOps == {"+", "-", "*", "/", "<", "<=", ">", ">=", "=", "!="}

\* str(value), the empty string for Null
TextOrEmpty(v) == IF IsNull(v) THEN <<>> ELSE StrOf(v)

\* C8: with a Null operand the arithmetic, comparison and equality operators
\* give Null; & gives the concatenation with Null read as the empty string.
C8_NullPropagates ==
    (opResult # NotApplied /\ (IsNull(opLeft) \/ IsNull(opRight))) =>
        /\ opName \in NullPropagatingOps => opResult = Ok(Null)
        /\ opName = "&" => opResult = Ok(StrV(TextOrEmpty(opLeft) \o TextOrEmpty(opRight)))

\* Null & 'a' has given 'a'.
C8_Witness ==
    /\ opName = "&"
    /\ opLeft = Null
    /\ opRight = StrV(ChA)
    /\ opResult = Ok(StrV(ChA))

\* C9: on True, False and Null, and is False when an operand is False, or is
\* True when an operand is True; otherwise Null when an operand is Null, and
\* the two-valued result when none is.
C9_ThreeValuedAndOr ==
    (opResult # NotApplied /\ opLeft \in {True, False, Null}
        /\ opRight \in {True, False, Null}) =>
        /\ opName = "and" =>
              opResult = Ok(IF opLeft = False \/ opRight = False THEN False
                            ELSE IF opLeft = Null \/ opRight = Null THEN Null
                            ELSE True)
        /\ opName = "or" =>
              opResult = Ok(IF opLeft = True \/ opRight = True THEN True
                            ELSE IF opLeft = Null \/ opRight = Null THEN Null
                            ELSE False)

\* Null and False has given False.
C9_Witness ==
    /\ opName = "and"
    /\ opLeft = Null
    /\ opRight = False
    /\ opResult = Ok(False)

\* C10: with a right operand that is an Integer 0, a Decimal 0 or a Quantity
\* of value 0, the operators /, div and mod give Null.
C10_ZeroDivisorGivesNull ==
    (/\ opResult # NotApplied
     /\ opName \in {"/", "div", "mod"}
     /\ opRight.t \in {"Integer", "Decimal", "Quantity"}
     /\ opRight.n = 0)
        => opResult = Ok(Null)

\* The value of v as an integer count of 10^-k
QuantityAt(v, k) == v.n * Pow10(k - v.e)

\* C11: on two Quantity operands, +, - and = give Null when the units differ;
\* with equal units + and - give a Quantity of that unit holding the sum or
\* the difference of the values, and = gives True iff the values are equal.
C11_QuantityUnits ==
    (opResult # NotApplied /\ opLeft.t = "Quantity" /\ opRight.t = "Quantity"
        /\ opName \in {"+", "-", "="}) =>
        IF opLeft.s # opRight.s THEN opResult = Ok(Null)
        ELSE /\ opResult.err = ""
             /\ opName \in {"+", "-"} =>
                  /\ opResult.val.t = "Quantity"
                  /\ opResult.val.s = opLeft.s
                  /\ LET k == Max2(opResult.val.e, Max2(opLeft.e, opRight.e))
                         sum == IF opName = "+"
                                THEN QuantityAt(opLeft, k) + QuantityAt(opRight, k)
                                ELSE QuantityAt(opLeft, k) - QuantityAt(opRight, k)
                     IN  QuantityAt(opResult.val, k) = sum
             /\ opName = "=" =>
                  opResult.val = BoolV(QuantityAt(opLeft, Max2(opLeft.e, opRight.e))
                                        = QuantityAt(opRight, Max2(opLeft.e, opRight.e)))

\* 5 'mg' + 5 'mg' has given 10 'mg'.
C11_Witness ==
    /\ opName = "+"
    /\ opLeft = QtyV(5, 0, Mg)
    /\ opRight = QtyV(5, 0, Mg)
    /\ opResult = Ok(QtyV(10, 0, Mg))

\* 5 'mg' = 5 'g' has given Null.
C11_WitnessUnitsDiffer ==
    /\ opName = "="
    /\ opLeft = QtyV(5, 0, Mg)
    /\ opRight = QtyV(5, 0, Gram)
    /\ opResult = Ok(Null)

\* The statement of the library tree that declares name as kind, if any
Declares(kind, name) == \E i \in 1..Len(tree) : tree[i].kind = kind /\ tree[i].name = name

Declared(kind, name) ==
    tree[CHOOSE i \in 1..Len(tree) : tree[i].kind = kind /\ tree[i].name = name]

\* What X stands for where no alias X is in scope, by the priority order
ByPriority ==
    IF Declares("ParameterDefinition", "X") THEN Declared("ParameterDefinition", "X").value
    ELSE IF Declares("ExpressionDefinition", "X")
    THEN Declared("ExpressionDefinition", "X").tree.v
    ELSE IF Declares("CodeDefinition", "X") THEN Declared("CodeDefinition", "X").value
    ELSE IF Declares("ConceptDefinition", "X")
    THEN Declared("ConceptDefinition", "X").value
    ELSE Null

\* The rows of a source: its elements, itself when a scalar, none when Null
AsRows(v) == IF v.t = "List" THEN v.items ELSE IF IsNull(v) THEN <<>> ELSE <<v>>

\* A root call on name has ended
Ended(name) == RootEnded /\ outcome.name = name

\* C12: a bare identifier stands for the alias in scope, else the bound
\* parameter, else the library definition, else the declared code, else the
\* declared concept, else Null, as an expression (R, W) and as a query source
\* (S, T).
C12_IdentifierPriority ==
    /\ Ended("R") => (outcome.err = "" /\ outcome.val = ByPriority)
    /\ Ended("W") => (outcome.err = "" /\ outcome.val = ListV(<<IntV(5)>>))
    /\ Ended("S") => (outcome.err = "" /\ outcome.val = ListV(AsRows(ByPriority)))
    /\ Ended("T") => (outcome.err = "" /\ outcome.val = ListV(<<ListV(<<IntV(7)>>)>>))

\* C12, in an expression: the identifier of R and of the return clause of W
\* is resolved in the priority order.
C12_IdentifierPriorityInExpression ==
    /\ Ended("R") => (outcome.err = "" /\ outcome.val = ByPriority)
    /\ Ended("W") => (outcome.err = "" /\ outcome.val = ListV(<<IntV(5)>>))

\* With parameter X, definition X, code X and concept X declared, R has
\* given the parameter's value.
C12_WitnessExpression ==
    /\ Ended("R")
    /\ Declares("ParameterDefinition", "X")
    /\ Declares("ExpressionDefinition", "X")
    /\ Declares("CodeDefinition", "X")
    /\ outcome.val = IntV(1)

\* With only parameter X declared, the query source X of S has given no row.
C12_WitnessSource ==
    /\ Ended("S")
    /\ Declares("ParameterDefinition", "X")
    /\ ~Declares("ExpressionDefinition", "X")
    /\ outcome.val = ListV(<<>>)

\* With definition X declared, the query source X of T, under the alias X,
\* has given the definition's value.
C12_WitnessShadowed ==
    /\ Ended("T")
    /\ ~Declares("ParameterDefinition", "X")
    /\ Declares("ExpressionDefinition", "X")
    /\ outcome.val = ListV(<<ListV(<<IntV(2)>>)>>)

\* The library tree declares a function of that name and arity
DeclaresFunction(name, arity) ==
    \E i \in 1..Len(tree) : /\ tree[i].kind = "FunctionDefinition"
                            /\ tree[i].name = name
                            /\ Len(tree[i].parameters) = arity

\* The body of the declared function Count(x)
BodyOfCount ==
    tree[CHOOSE i \in 1..Len(tree) : /\ tree[i].kind = "FunctionDefinition"
                                     /\ tree[i].name = "Count"
                                     /\ Len(tree[i].parameters) = 1].tree

\* C13: Count({1, 2}) gives what the body of the user function Count(x) gives
\* when the library declares it, and the built-in's 2 only otherwise;
\* Count({1}, 2) and Nope(1), which match no user function, go to the built-in
\* table, where the unknown Nope gives Null without raising.
C13_UserFunctionFirst ==
    /\ Ended("U") =>
          IF DeclaresFunction("Count", 1)
          THEN IF BodyOfCount.k = "literal"
               THEN outcome.err = "" /\ outcome.val = BodyOfCount.v
               ELSE outcome.err = "TypeError"
          ELSE outcome.err = "" /\ outcome.val = IntV(2)
    /\ Ended("V") => (outcome.err = "" /\ outcome.val = IntV(1))
    /\ Ended("Z") => (outcome.err = "" /\ outcome.val = Null)

\* With function Count(x): 'a' declared, Count({1, 2}) has given 'a'.
C13_Witness ==
    /\ Ended("U")
    /\ DeclaresFunction("Count", 1)
    /\ BodyOfCount = Lit(StrV(ChA))
    /\ outcome.val = StrV(ChA)

\* With function Nope(x, y) declared, Nope(1) has given Null.
C13_WitnessUnknown ==
    /\ Ended("Z")
    /\ DeclaresFunction("Nope", 2)
    /\ outcome.err = ""
    /\ outcome.val = Null

\* The text of the type name of a value's runtime type
TypeNameOf(v) ==
    CASE v.t = "String" -> Text_String
      [] v.t = "Integer" -> Text_Integer
      [] v.t = "Decimal" -> Text_Decimal
      [] v.t = "Boolean" -> Text_Boolean
      [] v.t = "Quantity" -> Text_Quantity
      [] OTHER -> <<>>

\* C14: `V as T` gives V when the runtime type of V is T and Null when it is
\* not; it neither converts V nor raises.
C14_AsNeverConverts ==
    (opResult # NotApplied /\ opName = "as") =>
        opResult = Ok(IF TypeNameOf(opLeft) = opRight.s THEN opLeft ELSE Null)

\* 1 as String has given '1'.
C14_WitnessConverted ==
    /\ opName = "as"
    /\ opLeft = IntV(1)
    /\ opRight = StrV(Text_String)
    /\ opResult = Ok(StrV(<<49>>))

\* 'a' as Decimal has raised decimal.InvalidOperation.
C14_WitnessRaised ==
    /\ opName = "as"
    /\ opLeft = StrV(ChA)
    /\ opRight = StrV(Text_Decimal)
    /\ opResult.err = "InvalidOperation"

\* 'a' as Date has given 'a'.
C14_WitnessUnchanged ==
    /\ opName = "as"
    /\ opLeft = StrV(ChA)
    /\ opRight = StrV(Text_Date)
    /\ opResult = Ok(StrV(ChA))

\* The sources of the query of J, in declaration order
SourcesOfJ == SourceClauseOf(TreeOf("J")).args

\* The elements of a source of J as the claim counts them: those of a list,
\* the resources of the call's patient, one for a scalar, none for Null
ElementsOf(src) ==
    CASE src.args[1].k = "listSelector" ->
            [i \in 1..Len(src.args[1].args) |-> src.args[1].args[i].v]
      [] src.args[1].k = "retrieve" ->
            data_source_retrieve(outcome.resource, src.args[1].name).items
      [] OTHER -> AsRows(src.args[1].v)

\* C15: the rows of J are the cartesian product of its three sources, one row
\* per tuple, each binding N, M and L to the tuple's elements; no row when a
\* source is empty or Null.
C15_CartesianProduct ==
    Ended("J") =>
        LET s1 == ElementsOf(SourcesOfJ[1])
            s2 == ElementsOf(SourcesOfJ[2])
            s3 == ElementsOf(SourcesOfJ[3])
            rows == outcome.val.items
            at(i, j, k) == ((i - 1) * Len(s2) + (j - 1)) * Len(s3) + k
        IN  /\ outcome.err = ""
            /\ Len(rows) = Len(s1) * Len(s2) * Len(s3)
            /\ \A i \in 1..Len(s1), j \in 1..Len(s2), k \in 1..Len(s3) :
                  rows[at(i, j, k)] =
                      DictV(<<Entry("N", s1[i]), Entry("M", s2[j]), Entry("L", s3[k])>>)

\* C15, when no source is empty: the rows of J are the cartesian product.
C15_ProductOfNonEmptySources ==
    (Ended("J") /\ \A i \in 1..3 : ElementsOf(SourcesOfJ[i]) # <<>>)
        => C15_CartesianProduct

\* With {} as the first source and {1, 2} as the second, J has given four
\* rows that bind M and L only.
C15_WitnessEmptyFirst ==
    /\ Ended("J")
    /\ SourcesOfJ[1].args[1] = ListSel(<<>>)
    /\ SourcesOfJ[2].args[1] = ListSel(<<Lit(IntV(1)), Lit(IntV(2))>>)
    /\ Len(outcome.val.items) = 4
    /\ outcome.val.items[1] = DictV(<<Entry("M", IntV(1)), Entry("L", IntV(4))>>)

\* With {1, 2} as both sources, J has given the eight rows of the product.
C15_WitnessProduct ==
    /\ Ended("J")
    /\ SourcesOfJ[1].args[1] = ListSel(<<Lit(IntV(1)), Lit(IntV(2))>>)
    /\ SourcesOfJ[2].args[1] = ListSel(<<Lit(IntV(1)), Lit(IntV(2))>>)
    /\ Len(outcome.val.items) = 8
    /\ outcome.val.items[8] =
          DictV(<<Entry("N", IntV(2)), Entry("M", IntV(2)), Entry("L", IntV(5))>>)

\* The row of K for an element of its source: N is the element, F its first
RowOfK(item) == DictV(<<Entry("N", item), Entry("F", item.items[1])>>)

\* The first element of the row's N is the Boolean True
FirstIsTrue(row) == row.items[1].items[1].items[1] = True

\* C16: K, whose predicate evaluates to the first element of each row's N,
\* gives exactly the rows in which that element is True, in source order; the
\* rows with False, Null, 1 and 'a' are dropped.
C16_WhereKeepsExactlyTrue ==
    (Ended("K") /\ WhereClauseOf(TreeOf("K")).args[1].k # "binary") =>
        /\ outcome.err = ""
        /\ outcome.val =
              ListV(SelectSeq([i \in 1..Len(WhereItems) |-> RowOfK(WhereItems[i])],
                              FirstIsTrue))

\* K has given its first and its fifth row, in that order.
C16_Witness ==
    /\ Ended("K")
    /\ WhereClauseOf(TreeOf("K")).args[1] = Ref("F")
    /\ outcome.val = ListV(<<RowOfK(WhereItems[1]), RowOfK(WhereItems[5])>>)

\* The text of the return clause of G
ReturnTextOfG == ReturnClauseOf(TreeOf("G")).text

\* C17: `return N` on {1, 1, 2, 1} gives the values without duplicates, first
\* occurrences in order: {1, 2}; `return all N` gives all four values.
C17_ReturnDropsDuplicates ==
    Ended("G") =>
        /\ outcome.err = ""
        /\ ReturnTextOfG \in ReturnTexts => outcome.val = ListV(<<IntV(1), IntV(2)>>)
        /\ ReturnTextOfG \in ReturnAllTexts => outcome.val = ListV(ReturnItems)

\* C17, for `return all`: every projected value is kept.
C17_ReturnAllKeepsAll ==
    (Ended("G") /\ ReturnTextOfG \in ReturnAllTexts) =>
        (outcome.err = "" /\ outcome.val = ListV(ReturnItems))

\* `return N` on {1, 1, 2, 1} has given {1, 1, 2, 1}.
C17_WitnessDuplicatesKept ==
    /\ Ended("G")
    /\ ReturnTextOfG \in ReturnTexts
    /\ outcome.val = ListV(ReturnItems)

\* Whatever the text of the clause, `return N` keeps the duplicates.
C17_ReturnKeepsDuplicates ==
    (Ended("G") /\ ReturnTextOfG \in ReturnTexts) => outcome.val = ListV(ReturnItems)

\* The bound that the where clause of I compares N with
BoundOfI == WhereClauseOf(TreeOf("I")).args[1].args[2].v

\* C18: ({1, 2, 3}) N where N > 1, a single-source query without a return
\* clause, gives the values of N for the surviving rows, [2, 3], and not the
\* rows that map N to them; First of it is 2.
C18_ImplicitReturnGivesValues ==
    /\ (Ended("I") /\ BoundOfI.t = "Integer") =>
          /\ outcome.err = ""
          /\ outcome.val = ListV(SelectSeq(<<IntV(1), IntV(2), IntV(3)>>,
                                           LAMBDA v : v.n > BoundOfI.n))
    /\ (Ended("H") /\ BoundOfI = IntV(1)) => (outcome.err = "" /\ outcome.val = IntV(2))

\* ({1, 2, 3}) N where N > 1 has given the rows {N: 2}, {N: 3}.
C18_WitnessRows ==
    /\ Ended("I")
    /\ BoundOfI = IntV(1)
    /\ outcome.val = ListV(<<DictV(<<Entry("N", IntV(2))>>), DictV(<<Entry("N", IntV(3))>>)>>)

\* First(I), for I as above, has given the row {N: 2}.
C18_WitnessFirstRow ==
    /\ Ended("H")
    /\ BoundOfI = IntV(1)
    /\ outcome.val = DictV(<<Entry("N", IntV(2))>>)

\* Without a return clause the query gives its rows, each mapping N to a
\* surviving value.
C18_ImplicitReturnGivesRows ==
    (Ended("I") /\ BoundOfI.t = "Integer") =>
        /\ outcome.err = ""
        /\ outcome.val.t = "List"
        /\ \A i \in 1..Len(outcome.val.items) :
              /\ outcome.val.items[i].t = "Dict"
              /\ outcome.val.items[i].items[1].key = "N"
              /\ outcome.val.items[i].items[1].items[1].n > BoundOfI.n

\* The value a list selector or a literal stands for
RECURSIVE ValueOf(_)
ValueOf(node) ==
    IF node.k = "listSelector"
    THEN ListV([i \in 1..Len(node.args) |-> ValueOf(node.args[i])])
    ELSE node.v

\* The list that SA, SD and SF sort
SortInput ==
    IF "SF" \in DOMAIN library.definitions THEN ValueOf(TreeOf("SF").args[1]).items
    ELSE <<>>

\* How often v occurs in items
Occurrences(v, items) == Cardinality({i \in 1..Len(items) : items[i] = v})

\* result holds the elements of items, the Integers in ascending (descending)
\* order first and every Null after them
SortedNullsLast(result, items, descending) ==
    /\ Len(result) = Len(items)
    /\ \A v \in Range(items) : Occurrences(v, result) = Occurrences(v, items)
    /\ \A i, j \in 1..Len(result) :
          i < j =>
             /\ IsNull(result[i]) => IsNull(result[j])
             /\ (~IsNull(result[i]) /\ ~IsNull(result[j])) =>
                   IF descending THEN result[i].n >= result[j].n
                   ELSE result[i].n <= result[j].n

IntegersAndNulls(items) == \A i \in 1..Len(items) : items[i].t \in {"Integer", "Null"}

\* C19: a list of Integers and Nulls sorted by `sort asc`, by `sort desc` or
\* by Sort() keeps its length and has every Null after the Integers, which are
\* in ascending (for desc, descending) order.
C19_NullsSortLast ==
    IntegersAndNulls(SortInput) =>
        /\ Ended("SA") =>
              (outcome.err = "" /\ SortedNullsLast(outcome.val.items, SortInput, FALSE))
        /\ Ended("SD") =>
              (outcome.err = "" /\ SortedNullsLast(outcome.val.items, SortInput, TRUE))
        /\ Ended("SF") =>
              (outcome.err = "" /\ SortedNullsLast(outcome.val.items, SortInput, FALSE))

\* C19, for the sort clause: `sort asc` and `sort desc` keep the length and
\* put every Null last.
C19_SortClauseNullsLast ==
    IntegersAndNulls(SortInput) =>
        /\ Ended("SA") =>
              (outcome.err = "" /\ SortedNullsLast(outcome.val.items, SortInput, FALSE))
        /\ Ended("SD") =>
              (outcome.err = "" /\ SortedNullsLast(outcome.val.items, SortInput, TRUE))

\* Sort({2, null, 1, null, 3}) has given {1, 2, 3}.
C19_WitnessNullsDropped ==
    /\ Ended("SF")
    /\ SortInput = <<IntV(2), Null, IntV(1), Null, IntV(3)>>
    /\ outcome.val = ListV(<<IntV(1), IntV(2), IntV(3)>>)

\* ({2, null, 1, null, 3}) N return all N sort desc has given
\* {3, 2, 1, null, null}.
C19_WitnessSortDesc ==
    /\ Ended("SD")
    /\ outcome.val = ListV(<<IntV(3), IntV(2), IntV(1), Null, Null>>)

\* The sort items of M, in declaration order
SortItemsOfM == SortClauseOf(TreeOf("M")).args

\* The keys whose values on KeyedItems are mutually orderable: the first
\* element and the number of elements, all Integers
Orderable(item) == item.args[1].name \in {"First", "Count"}

\* The value of an orderable key on an element of KeyedItems
KeyOn(item, v) == IF item.args[1].name = "First" THEN v.items[1].n ELSE Len(v.items)

\* Element i comes before element j by the k-th and later sort items, and by
\* the input order when all of them tie
RECURSIVE ComesBefore(_, _, _)
ComesBefore(k, i, j) ==
    IF k > Len(SortItemsOfM) THEN i < j
    ELSE LET item == SortItemsOfM[k]
             a == KeyOn(item, KeyedItems[i])
             b == KeyOn(item, KeyedItems[j])
         IN  IF ~Orderable(item) \/ a = b THEN ComesBefore(k + 1, i, j)
             ELSE IF item.name = "desc" THEN a > b
             ELSE a < b

\* The elements of KeyedItems in the order ComesBefore defines
InKeyOrder ==
    LET n == Len(KeyedItems)
        rank(i) == 1 + Cardinality({j \in 1..n : j # i /\ ComesBefore(1, j, i)})
    IN  [p \in 1..n |-> KeyedItems[CHOOSE i \in 1..n : rank(i) = p]]

\* C20: the result of M is ordered by its first-declared key, ties by the
\* second, ties on both in input order; a key whose values cannot be ordered
\* (or whose evaluation raises TypeError) leaves the order as it is, and M
\* does not raise.
C20_KeysInDeclarationPriority ==
    Ended("M") => (outcome.err = "" /\ outcome.val = ListV(InKeyOrder))

\* sort by First asc, Count desc has given {0,5,'a'}, {0}, {1,8,8}, {1,9},
\* {1,7}.
C20_Witness ==
    /\ Ended("M")
    /\ SortItemsOfM = <<SortByItem("asc", Call("First", <<Ref("$this")>>)),
                        SortByItem("desc", Call("Count", <<Ref("$this")>>))>>
    /\ outcome.val = ListV(<<KeyedItems[2], KeyedItems[5], KeyedItems[4], KeyedItems[1],
                             KeyedItems[3]>>)

\* sort by Last asc, Count desc, Last not orderable, has given the order of
\* Count desc alone.
C20_WitnessNotOrderable ==
    /\ Ended("M")
    /\ SortItemsOfM = <<SortByItem("asc", Call("Last", <<Ref("$this")>>)),
                        SortByItem("desc", Call("Count", <<Ref("$this")>>))>>
    /\ outcome.val = ListV(<<KeyedItems[2], KeyedItems[4], KeyedItems[1], KeyedItems[3],
                             KeyedItems[5]>>)

\* The built-in opName has been called on the list opLeft
Called(name) == opName = name /\ opResult # NotApplied

\* What singleton gives on a list: Null for none, the element for one, an
\* error for more
SingletonOf(items, result) ==
    CASE Len(items) = 0 -> result = Ok(Null)
      [] Len(items) = 1 -> result = Ok(items[1])
      [] OTHER -> result = Raise(SingletonCardinality)

\* C21: Singleton and singletonFrom called on a list give Null for an empty
\* list, the sole element for a list of one, and raise for a list of more than
\* one element.
C21_SingletonOfList ==
    (Called("Singleton") \/ Called("singletonFrom")) =>
        SingletonOf(opLeft.items, opResult)

\* C21, for Singleton alone: Null, the sole element, or an error.
C21_SingletonAlone == Called("Singleton") => SingletonOf(opLeft.items, opResult)

\* Singleton({1, 2}) has raised.
C21_WitnessSingletonRaises ==
    /\ Called("Singleton")
    /\ opLeft = ListV(<<IntV(1), IntV(2)>>)
    /\ opResult = Raise(SingletonCardinality)

\* singletonFrom({1, 2}) has returned Null, and so has singletonFrom({1}).
C21_WitnessSingletonFromNull ==
    /\ Called("singletonFrom")
    /\ opLeft \in {ListV(<<IntV(1), IntV(2)>>), ListV(<<IntV(1)>>)}
    /\ opResult = Ok(Null)

\* The list without its Null elements
WithoutNulls(items) == SelectSeq(items, NotNull)

\* The aggregate opName has ignored the Null elements of its argument: it
\* gives what it gives on the list without them, and Null, with no error,
\* when nothing is left.
IgnoresNulls ==
    /\ opResult = _call_builtin_function(opName, <<ListV(WithoutNulls(opLeft.items))>>)
    /\ WithoutNulls(opLeft.items) = <<>> => opResult = Ok(Null)

\* C22: every aggregate built-in ignores the Null elements of its list
\* argument and returns Null, without raising, for a list that is empty or
\* holds only Nulls.
C22_AggregatesIgnoreNull ==
    (opName \in AggregateNames /\ opResult # NotApplied) => IgnoresNulls

\* C22, for the aggregates other than Count.
C22_AggregatesButCount ==
    (opName \in AggregateNames \ {"Count"} /\ opResult # NotApplied) => IgnoresNulls

\* Count({null, 4}) has given 2 and Count({}) has given 0.
C22_WitnessCountsNull ==
    /\ Called("Count")
    /\ \/ opLeft = ListV(<<Null, IntV(4)>>) /\ opResult = Ok(IntV(2))
       \/ opLeft = ListV(<<>>) /\ opResult = Ok(IntV(0))

\* StdDev({1, null, 3}) has given the root of 2, and Avg({null, null}) Null.
C22_WitnessIgnored ==
    \/ /\ Called("StdDev")
       /\ opLeft = ListV(<<IntV(1), Null, IntV(3)>>)
       /\ opResult.val.t = "Decimal"
       /\ opResult.val.n = IntRoot(2 * Pow10(2 * DivDigits), 2)
    \/ /\ Called("Avg")
       /\ opLeft = ListV(<<Null, Null>>)
       /\ opResult = Ok(Null)

\* The timing expression `opLeft op opRight` has been evaluated
Timed(op) == opName = op /\ opResult # NotApplied

LowOf(interval) == interval.items[1]

HighOf(interval) == interval.items[2]

Bounded(v) == IsInterval(v) /\ ~IsNull(LowOf(v)) /\ ~IsNull(HighOf(v))

\* A closed interval of Integers with low <= high
ClosedInterval(v) == Bounded(v) /\ v.n = 1 /\ v.e = 1 /\ LowOf(v).n <= HighOf(v).n

\* a ends right before b starts: successor(a.high) = b.low
Adjacent(a, b) == HighOf(a).n + 1 = LowOf(b).n

\* C23: on closed Integer intervals `A meets B` is True exactly when one ends
\* right before the other starts (successor of the one's high bound is the
\* other's low bound), so False when they share an endpoint or overlap;
\* `meets before` and `meets after` are the two directions.
C23_MeetsAdjacent ==
    (ClosedInterval(opLeft) /\ ClosedInterval(opRight)) =>
        /\ Timed("meets") =>
              opResult = Ok(BoolV(Adjacent(opLeft, opRight) \/ Adjacent(opRight, opLeft)))
        /\ Timed("meets before") => opResult = Ok(BoolV(Adjacent(opLeft, opRight)))
        /\ Timed("meets after") => opResult = Ok(BoolV(Adjacent(opRight, opLeft)))

\* Interval[1, 2] meets Interval[3, 3] has given False, and
\* Interval[1, 2] meets Interval[2, 3] True.
C23_WitnessMeets ==
    /\ Timed("meets")
    /\ opLeft = IntervalV(IntV(1), IntV(2), TRUE, TRUE)
    /\ \/ opRight = IntervalV(IntV(3), IntV(3), TRUE, TRUE) /\ opResult = Ok(False)
       \/ opRight = IntervalV(IntV(2), IntV(3), TRUE, TRUE) /\ opResult = Ok(True)

\* Interval[1, 1] meets before Interval[2, 3] has given True: with `before`
\* in its text the operator is evaluated as `before`.
C23_WitnessMeetsBefore ==
    /\ Timed("meets before")
    /\ opLeft = IntervalV(IntV(1), IntV(1), TRUE, TRUE)
    /\ opRight = IntervalV(IntV(2), IntV(3), TRUE, TRUE)
    /\ opResult = Ok(True)

\* The points of the number line between the bounds, in halves: d stands
\* for d / 2
HalfPoints == 1..(2 * MaxBound + 1)

\* The point d / 2 belongs to the bounded interval
HoldsPoint(interval, d) ==
    /\ IF interval.n = 1 THEN 2 * LowOf(interval).n <= d ELSE 2 * LowOf(interval).n < d
    /\ IF interval.e = 1 THEN d <= 2 * HighOf(interval).n ELSE d < 2 * HighOf(interval).n

SharePoint(a, b) == \E d \in HalfPoints : HoldsPoint(a, d) /\ HoldsPoint(b, d)

NonEmpty(interval) == \E d \in HalfPoints : HoldsPoint(interval, d)

\* C24: for intervals with bounded endpoints `A overlaps B` is True iff some
\* point belongs to both, open and closed bounds taken into account, and
\* `B overlaps A` is the same.
C24_OverlapsSharePoint ==
    (Bounded(opLeft) /\ Bounded(opRight) /\ Timed("overlaps")) =>
        /\ opResult = Ok(BoolV(SharePoint(opLeft, opRight)))
        /\ opResult = TimingExpression("overlaps", opRight, opLeft)

\* C24, for intervals that hold a point.
C24_OverlapsOfNonEmpty ==
    (/\ Bounded(opLeft) /\ NonEmpty(opLeft)
     /\ Bounded(opRight) /\ NonEmpty(opRight)
     /\ Timed("overlaps")) =>
        /\ opResult = Ok(BoolV(SharePoint(opLeft, opRight)))
        /\ opResult = TimingExpression("overlaps", opRight, opLeft)

\* `overlaps` is symmetric on all intervals.
C24_OverlapsSymmetric ==
    (IsInterval(opLeft) /\ IsInterval(opRight) /\ Timed("overlaps")) =>
        opResult = TimingExpression("overlaps", opRight, opLeft)

\* Interval[3, 1] overlaps Interval[1, 3] has given True.
C24_WitnessEmptyOverlaps ==
    /\ Timed("overlaps")
    /\ opLeft = IntervalV(IntV(3), IntV(1), TRUE, TRUE)
    /\ opRight = IntervalV(IntV(1), IntV(3), TRUE, TRUE)
    /\ opResult = Ok(True)

\* Interval[1, 2) overlaps Interval[2, 3] has given False.
C24_WitnessTouchingOpen ==
    /\ Timed("overlaps")
    /\ opLeft = IntervalV(IntV(1), IntV(2), TRUE, FALSE)
    /\ opRight = IntervalV(IntV(2), IntV(3), TRUE, TRUE)
    /\ opResult = Ok(False)

\* a starts before b starts, and a ends after b ends
StartsBefore(a, b) ==
    \/ LowOf(a).n < LowOf(b).n
    \/ LowOf(a).n = LowOf(b).n /\ a.n = 1 /\ b.n = 0

EndsAfter(a, b) ==
    \/ HighOf(a).n > HighOf(b).n
    \/ HighOf(a).n = HighOf(b).n /\ a.e = 1 /\ b.e = 0

\* C25: on bounded intervals that hold a point `A overlaps before B` is True
\* iff A overlaps B and A starts before B starts, and `A overlaps after B` iff
\* A overlaps B and A ends after B ends.
C25_OverlapsBeforeAfter ==
    (/\ Bounded(opLeft) /\ NonEmpty(opLeft)
     /\ Bounded(opRight) /\ NonEmpty(opRight)) =>
        /\ Timed("overlaps before") =>
              opResult =
                 Ok(BoolV(SharePoint(opLeft, opRight) /\ StartsBefore(opLeft, opRight)))
        /\ Timed("overlaps after") =>
              opResult = Ok(BoolV(SharePoint(opLeft, opRight) /\ EndsAfter(opLeft, opRight)))

\* Interval[1, 2] overlaps before Interval[2, 3] has given False, and
\* Interval[2, 3] overlaps after Interval[1, 2] False.
C25_WitnessOverlapsBefore ==
    \/ /\ Timed("overlaps before")
       /\ opLeft = IntervalV(IntV(1), IntV(2), TRUE, TRUE)
       /\ opRight = IntervalV(IntV(2), IntV(3), TRUE, TRUE)
       /\ opResult = Ok(False)
    \/ /\ Timed("overlaps after")
       /\ opLeft = IntervalV(IntV(2), IntV(3), TRUE, TRUE)
       /\ opRight = IntervalV(IntV(1), IntV(2), TRUE, TRUE)
       /\ opResult = Ok(False)

\* C26: on closed Integer intervals `A starts B` is True iff the low bounds
\* are the same and A.high <= B.high, and `A ends B` iff the high bounds are
\* the same and A.low >= B.low.
C26_StartsEndsContained ==
    (ClosedInterval(opLeft) /\ ClosedInterval(opRight)) =>
        /\ Timed("starts") =>
              opResult = Ok(BoolV(/\ LowOf(opLeft).n = LowOf(opRight).n
                                  /\ HighOf(opLeft).n <= HighOf(opRight).n))
        /\ Timed("ends") =>
              opResult = Ok(BoolV(/\ HighOf(opLeft).n = HighOf(opRight).n
                                  /\ LowOf(opLeft).n >= LowOf(opRight).n))

\* C26, for equal intervals: each starts and ends the other.
C26_EqualStartsEnds ==
    (ClosedInterval(opLeft) /\ opRight = opLeft /\ (Timed("starts") \/ Timed("ends"))) =>
        opResult = Ok(True)

\* Interval[1, 3] starts Interval[1, 2] has given True, and
\* Interval[1, 3] ends Interval[2, 3] True.
C26_WitnessLongerStarts ==
    /\ opLeft = IntervalV(IntV(1), IntV(3), TRUE, TRUE)
    /\ opResult = Ok(True)
    /\ \/ Timed("starts") /\ opRight = IntervalV(IntV(1), IntV(2), TRUE, TRUE)
       \/ Timed("ends") /\ opRight = IntervalV(IntV(2), IntV(3), TRUE, TRUE)

\* The Integers of a closed interval, and of a list of them
PointsOf(interval) == {p \in 1..MaxBound : LowOf(interval).n <= p /\ p <= HighOf(interval).n}

PointsOfAll(intervals) == UNION {PointsOf(intervals[i]) : i \in 1..Len(intervals)}

\* Disjoint, not adjacent and sorted by low bound
Collapsed(result) ==
    \A i, j \in 1..Len(result) :
        i < j =>
           /\ PointsOf(result[i]) \cap PointsOf(result[j]) = {}
           /\ ~overlaps(result[i], result[j])
           /\ ~StartsRightAfter(result[i], result[j])
           /\ LowOf(result[i]).n <= LowOf(result[j]).n

\* No interval of the list overlaps another or starts right after one ends
Separated(intervals) ==
    \A i, j \in 1..Len(intervals) :
        i # j => (/\ ~overlaps(intervals[i], intervals[j])
                  /\ ~StartsRightAfter(intervals[i], intervals[j]))

NoTwoEqual(items) == \A i, j \in 1..Len(items) : i # j => ~PyEq(items[i], items[j])

\* The result of a union: no two equal elements, every value of both operands,
\* in the order of first occurrence in left followed by right
UnionOfBoth(result, left, right) ==
    /\ NoTwoEqual(result)
    /\ \A v \in Range(left) \cup Range(right) : InList(v, result)
    /\ result = Distinct(left \o right)

\* C28: `L union R`, a scalar operand taken as a one-element list and Null as
\* the empty list, holds no two value-equal elements, holds every value of L
\* and of R, and lists them in the order of first occurrence in L followed by
\* R, also when L itself holds duplicates.
C28_UnionDistinctInOrder ==
    Timed("union") =>
        /\ opResult.err = ""
        /\ UnionOfBoth(opResult.val.items, AsList(opLeft), AsList(opRight))

\* C28, for a left operand without duplicates.
C28_UnionOfDistinctLeft ==
    (Timed("union") /\ NoTwoEqual(AsList(opLeft))) =>
        /\ opResult.err = ""
        /\ UnionOfBoth(opResult.val.items, AsList(opLeft), AsList(opRight))

\* {1, 1} union {2, 1} has given {1, 1, 2}.
C28_WitnessLeftDuplicates ==
    /\ Timed("union")
    /\ opLeft = ListV(<<IntV(1), IntV(1)>>)
    /\ opRight = ListV(<<IntV(2), IntV(1)>>)
    /\ opResult = Ok(ListV(<<IntV(1), IntV(1), IntV(2)>>))

\* {1, 2} union {2, 1} has given {1, 2}, and
\* { Interval[1, 2] } union { Interval[1, 2], Interval[1, 2) } both intervals.
C28_WitnessUnion ==
    /\ Timed("union")
    /\ \/ /\ opLeft = ListV(<<IntV(1), IntV(2)>>)
          /\ opRight = ListV(<<IntV(2), IntV(1)>>)
          /\ opResult = Ok(opLeft)
       \/ /\ opLeft = ListV(<<IntervalV(IntV(1), IntV(2), TRUE, TRUE)>>)
          /\ Len(opRight.items) = 2
          /\ opResult = Ok(opRight)

\* The positions among the first n top-level statements that hold a statement
\* of the kind
PositionsOf(kind, n) == {i \in 1..n : i <= Len(tree) /\ tree[i].kind = kind}

\* The name of the most recent context statement among the first n
\* statements, None when there is none
ContextAt(n) ==
    LET seen == PositionsOf("context", n)
    IN  IF seen = {} THEN "None"
        ELSE tree[CHOOSE i \in seen : \A j \in seen : j <= i].name

\* The context names among the first n statements, each once, in the order
\* they are first seen
RECURSIVE ContextsSeen(_)
ContextsSeen(n) ==
    IF n = 0 THEN <<>>
    ELSE LET before == ContextsSeen(n - 1)
         IN  IF tree[n].kind = "context" /\ tree[n].name \notin Range(before)
             THEN Append(before, tree[n].name)
             ELSE before

\* The position of the last statement among the first n that defines name
LastDefinedAt(name, n) ==
    CHOOSE i \in PositionsOf("ExpressionDefinition", n) :
        /\ tree[i].name = name
        /\ \A j \in PositionsOf("ExpressionDefinition", n) : tree[j].name = name => j <= i

\* C29: after any number of top-level statements, current_context is the name
\* of the most recent context statement (None before the first), contexts
\* holds each context name once in first-seen order, the stored definitions
\* are those of the define statements only, and every stored definition holds
\* the current_context in effect at its own statement, whatever context
\* statements follow it.
C29_ContextsDuringCompilation ==
    /\ library.current_context = ContextAt(pos)
    /\ library.contexts = ContextsSeen(pos)
    /\ DOMAIN library.definitions =
           {tree[i].name : i \in PositionsOf("ExpressionDefinition", pos)}
    /\ \A name \in DOMAIN library.definitions :
           library.definitions[name].context = ContextAt(LastDefinedAt(name, pos) - 1)

\* define A: 1, context Patient, define B: null, context Unfiltered is
\* compiled: A holds None, B holds Patient, the current context is Unfiltered.
C29_WitnessContexts ==
    /\ pos = 4
    /\ Len(tree) = 4
    /\ tree[2] = ContextStmt("Patient")
    /\ tree[4] = ContextStmt("Unfiltered")
    /\ DOMAIN library.definitions = {"A", "B"}
    /\ library.definitions["A"].context = "None"
    /\ library.definitions["B"].context = "Patient"
    /\ library.current_context = "Unfiltered"
    /\ library.contexts = <<"Patient", "Unfiltered">>

\* context Patient, context Unfiltered, context Patient, define A: 1 is
\* compiled: contexts holds Patient once and A holds Patient.
C29_WitnessRepeatedContext ==
    /\ pos = 4
    /\ tree = <<ContextStmt("Patient"), ContextStmt("Unfiltered"), ContextStmt("Patient"),
                Define("A", Lit(IntV(1)))>>
    /\ library.contexts = <<"Patient", "Unfiltered">>
    /\ library.definitions["A"].context = "Patient"

\* C30: the value memoized for a definition in a root call is the value the
\* root call before returned for that definition on the same resource,
\* wherever in the running root call the definition was first referenced:
\* the aliases, let bindings and function parameters in scope at the
\* reference do not reach the definition's body.
C30_MemoIndependentOfSite ==
    \A name \in DOMAIN definition_cache :
        (outcome.name = name /\ outcome.resource = root.resource /\ outcome.err = "")
            => definition_cache[name] = outcome.val

\* The body of the definition is an identifier that the library does not
\* declare, so that only an alias in scope can give it a value
BodyIsUndeclared(name) ==
    LET body == library.definitions[name].expression_tree
    IN  /\ body.k = "memberInvocation"
        /\ body.name \notin DOMAIN library.definitions \cup DOMAIN library.parameters
                               \cup DOMAIN library.codes \cup DOMAIN library.concepts

\* C30, for the definitions whose body is not such an identifier.
C30_MemoOfDeclaredBodies ==
    \A name \in DOMAIN definition_cache :
        (/\ outcome.name = name
         /\ outcome.resource = root.resource
         /\ outcome.err = ""
         /\ ~BodyIsUndeclared(name))
            => definition_cache[name] = outcome.val

\* define A: N evaluated as the root gives null.
C30_WitnessAtRoot ==
    /\ pc = "idle"
    /\ outcome.name = "A"
    /\ outcome.err = ""
    /\ outcome.val = Null
    /\ Len(tree) = 6
    /\ tree[2] = Define("A", Ref("N"))

\* define A: N first referenced by ({1, 2}) N return A is memoized as 1, the
\* alias of the first row, and B is {1, 1}.
C30_WitnessReturnLeak ==
    /\ pc = "idle"
    /\ Len(tree) = 6
    /\ tree[2] = Define("A", Ref("N"))
    /\ outcome.name = "B"
    /\ outcome.val = ListV(<<IntV(1), IntV(1)>>)
    /\ "A" \in DOMAIN definition_cache
    /\ definition_cache["A"] = IntV(1)

\* define A: L first referenced by ({1}) M let L: 5 return A is memoized as 5.
C30_WitnessLetLeak ==
    /\ pc = "idle"
    /\ Len(tree) = 6
    /\ tree[2] = Define("A", Ref("L"))
    /\ outcome.name = "C"
    /\ "A" \in DOMAIN definition_cache
    /\ definition_cache["A"] = IntV(5)

\* define A: N first referenced by the body of F(N), called as F(7), is
\* memoized as 7.
C30_WitnessParameterLeak ==
    /\ pc = "idle"
    /\ Len(tree) = 6
    /\ tree[2] = Define("A", Ref("N"))
    /\ outcome.name = "D"
    /\ outcome.val = IntV(7)
    /\ "A" \in DOMAIN definition_cache
    /\ definition_cache["A"] = IntV(7)
====
